---- MODULE Spec2Model ----
(***************************************************************************)
(* Model of the token trust boundary of the mini e-commerce system:        *)
(*   auth-service  (issuer: RS256 key pair, access and refresh tokens)     *)
(*   backend       (consumer: cached public key, token validation and      *)
(*                  find-or-create reconciliation of local user records)   *)
(* Each component has its own variables, initial condition and next-state  *)
(* relation; a specification of one component leaves the others unchanged. *)
(***************************************************************************)
EXTENDS Integers, Sequences, FiniteSets, TLC

\* Python's None (and the empty string of an unset setting): the empty
\* sequence. A present optional value v is the one-element sequence <<v>>.
None == <<>>

Some(v) == <<v>>

(***************************************************************************)
(* Bounds of the model.                                                    *)
(***************************************************************************)
\* Concurrent backend requests that reach get_current_user.
NumRequests == 2

\* Issuer threads that call _get_keys (sync endpoints run on a thread pool).
NumThreads == 2

\* Key pairs the issuer process generates over its restarts.
MaxKeys == 2

\* Advances of the clock.
MaxTicks == 2

\* Consumer threads inside the validator when calls are allowed to overlap.
NumValidatorThreads == 2

\* Successful logins, each of which stores one refresh-token record.
MaxLogins == 2

\* Redemptions of one refresh string that are told apart when counting them.
MaxRedeemed == 2

\* Requests past the limit that one (operation, address) makes in one window.
MaxOverLimit == 1

VARIABLES
    users,      \* backend: rows of the users table, in insertion order
    req,        \* backend: per request, position in get_current_user and session objects
    auth_settings,  \* auth-service: settings.jwt_private_key, settings.jwt_public_key
    _private_key,   \* auth-service jwt.py: module global
    _public_key,    \* auth-service jwt.py: module global
    generated,      \* auth-service: number of _generate_rsa_keys calls so far
    observed,       \* auth-service: the (private, public) pairs _get_keys has returned
    kt,             \* auth-service: per thread, position in _get_keys and locals
    now,            \* the clock, in whole seconds since the epoch
    ticks,          \* number of clock advances so far
    issued,         \* the access token create_access_token returned last, or None
    backend_settings,        \* backend: settings.jwt_public_key
    _cached_public_key,      \* backend security.py: module global _public_key
    _public_key_fetched_at,  \* backend security.py: module global
    delivered,      \* backend: the keys _fetch_public_key has returned so far
    vt,             \* backend: per thread, position in the validator and locals
    auth_users,     \* auth-service: rows of the users table, by id
    refresh_tokens, \* auth-service: rows of the refresh_tokens table, in insertion order
    rr,             \* auth-service: the response of the last login / refresh request
    redeemed,       \* auth-service: per refresh string, its successful redemptions so far
    rate_counters,  \* auth-service: the limiter's storage, per (operation, address)
    rl,             \* auth-service: the answer to the last rate-limited request
    keyed,          \* auth-service: the requests get_real_client_ip was called with, and its results
    sent,           \* auth-service: the response body sent to a client last
    rotated_at,     \* the time of the issuer's latest key change, 0 when it never changed
    products,       \* backend: rows of the products table, by id
    cart_items,     \* backend: rows of the cart_items table, in insertion order
    orders,         \* backend: rows of the orders table with their order items, by id
    shop,           \* backend: the answer to the last cart / order request
    accounts,       \* issuer: rows of the users table, in insertion order
    reg,            \* issuer: per worker thread, its register request and last answer
    ot,             \* backend: per worker, the create_order request it is serving
    au,             \* backend: per request, the answer of get_current_active_user
    both            \* the latest token handed to the two validators, and their answers

reconVars == <<users, req>>

keyVars == <<auth_settings, _private_key, _public_key, generated, observed, kt>>

clockVars == <<now, ticks>>

valVars == <<issued, backend_settings, _cached_public_key, _public_key_fetched_at,
             delivered, vt>>

refreshVars == <<auth_users, refresh_tokens, rr, redeemed>>

rateVars == <<rate_counters, rl>>

rateKeyVars == <<keyed>>

\* The variables of the parts modelled further down, for the frames of the
\* parts above them.
endpointVars == <<sent>>

shopVars == <<products, cart_items, orders, shop>>

registerVars == <<accounts, reg>>

laterVars == <<ot, au, both>>

otherVars == <<rateKeyVars, endpointVars, rotated_at, shopVars, registerVars, laterVars>>

vars == <<reconVars, keyVars, clockVars, valVars, refreshVars, rateVars, otherVars>>

\* What the actions of one component leave unchanged.
notRecon == <<keyVars, clockVars, valVars, refreshVars, rateVars, otherVars>>

notKeys == <<reconVars, clockVars, valVars, refreshVars, rateVars, otherVars>>

(***************************************************************************)
(* backend/app/core/deps.py : identity reconciliation                      *)
(***************************************************************************)
Requests == 1..NumRequests

Emails == {"a@x.com", "b@x.com"}

SubjectIds == {7, 123}

FullNames == {None, Some("Ann")}

\* UserContext: the validated claims handed to get_current_user. Every
\* combination of claims for the first email, one set of claims for the other.
UserContext ==
    [auth_service_id : SubjectIds, email : {"a@x.com"},
     full_name : FullNames, is_admin : BOOLEAN]
    \cup [auth_service_id : {7}, email : Emails \ {"a@x.com"},
          full_name : {None}, is_admin : {FALSE}]

ReconInit ==
    /\ users = <<>>
    /\ req = [r \in Requests |-> [pc |-> "idle", ctx |-> None, user |-> None,
                                  result |-> None, raced |-> FALSE,
                                  synced |-> FALSE]]

\* db.query(User).filter(User.email == email).first()
first_by_email(email) ==
    LET hits == {i \in DOMAIN users : users[i].email = email}
    IN IF hits = {} THEN None
       ELSE users[CHOOSE i \in hits : \A j \in hits : i <= j]

\* The store's uniqueness constraint on users.email: an insert of an email
\* that a committed row already holds fails with IntegrityError.
UniqueViolation(email) == \E i \in DOMAIN users : users[i].email = email

\* User(email=..., auth_service_id=..., full_name=..., is_active=True, ...)
NewUser(ctx) ==
    [id |-> Len(users) + 1, email |-> ctx.email,
     auth_service_id |-> ctx.auth_service_id, full_name |-> ctx.full_name,
     is_active |-> TRUE, is_admin |-> ctx.is_admin, hashed_password |-> ""]

\* A request carrying validated claims ctx enters get_current_user.
\* req[r].raced records the "Race condition on user create" log line,
\* req[r].synced the "Synced claims for user" log line.
get_current_user(r, ctx) ==
    /\ req[r].pc = "idle"
    /\ req' = [req EXCEPT ![r] = [pc |-> "find", ctx |-> ctx, user |-> None,
                                  result |-> None, raced |-> FALSE,
                                  synced |-> FALSE]]
    /\ UNCHANGED users
    /\ UNCHANGED notRecon

\* _find_or_create_user: the first lookup by email.
find_or_create_lookup(r) ==
    /\ req[r].pc = "find"
    /\ LET user == first_by_email(req[r].ctx.email)
       IN req' = [req EXCEPT ![r].user = user,
                             ![r].pc = IF user # None THEN "sync" ELSE "create"]
    /\ UNCHANGED users
    /\ UNCHANGED notRecon

\* _find_or_create_user: db.add(user); db.commit(). The commit either inserts
\* the row or raises IntegrityError, which leaves the store as it was.
find_or_create_commit(r) ==
    /\ req[r].pc = "create"
    /\ IF UniqueViolation(req[r].ctx.email)
       THEN /\ req' = [req EXCEPT ![r].pc = "conflict", ![r].raced = TRUE]
            /\ UNCHANGED users
       ELSE /\ users' = Append(users, NewUser(req[r].ctx))
            /\ req' = [req EXCEPT ![r].user = NewUser(req[r].ctx),
                                  ![r].pc = "created"]
    /\ UNCHANGED notRecon

\* _find_or_create_user: db.refresh(user) after the insert, then return.
find_or_create_refresh(r) ==
    /\ req[r].pc = "created"
    /\ req' = [req EXCEPT ![r].user = users[req[r].user.id], ![r].pc = "sync"]
    /\ UNCHANGED users
    /\ UNCHANGED notRecon

\* A handler that gives up on a conflict instead of reading the winner's row.
find_or_create_conflict_no_reread(r) ==
    /\ req[r].pc = "conflict"
    /\ req' = [req EXCEPT ![r].pc = "done", ![r].user = None,
                          ![r].result = [status |-> 500, user |-> None]]
    /\ UNCHANGED users
    /\ UNCHANGED notRecon

\* A handler that lets the conflict reach the caller.
find_or_create_conflict_surfaces(r) ==
    /\ req[r].pc = "conflict"
    /\ req' = [req EXCEPT ![r].pc = "done", ![r].user = None,
                          ![r].result = [status |-> 409, user |-> None]]
    /\ UNCHANGED users
    /\ UNCHANGED notRecon

\* _find_or_create_user: except IntegrityError: rollback, read again by email,
\* 500 if the row is still absent.
find_or_create_conflict(r) ==
    /\ req[r].pc = "conflict"
    /\ LET user == first_by_email(req[r].ctx.email)
       IN IF user = None
          THEN req' = [req EXCEPT ![r].pc = "done", ![r].user = None,
                                  ![r].result = [status |-> 500, user |-> None]]
          ELSE req' = [req EXCEPT ![r].pc = "sync", ![r].user = user]
    /\ UNCHANGED users
    /\ UNCHANGED notRecon

\* The attributes of the session's user object that differ from the claims.
ChangedClaims(user, ctx) ==
    {f \in {"auth_service_id", "full_name", "is_admin"} : user[f] # ctx[f]}

\* A _sync_user_claims that leaves is_admin alone.
sync_user_claims_skips_admin(r) ==
    /\ req[r].pc = "sync"
    /\ LET user == req[r].user
           ctx == req[r].ctx
           dirty == ChangedClaims(user, ctx) \ {"is_admin"}
           synced == [f \in DOMAIN user |-> IF f \in dirty THEN ctx[f] ELSE user[f]]
       IN IF dirty = {}
          THEN /\ req' = [req EXCEPT ![r].pc = "done",
                                     ![r].result = [status |-> 200, user |-> user]]
               /\ UNCHANGED users
          ELSE /\ users' = [users EXCEPT ![user.id] =
                                [f \in DOMAIN user |->
                                    IF f \in dirty THEN ctx[f] ELSE users[user.id][f]]]
               /\ req' = [req EXCEPT ![r].pc = "synced", ![r].user = synced]
    /\ UNCHANGED notRecon

\* A _sync_user_claims that commits on every call.
sync_user_claims_always_commits(r) ==
    /\ req[r].pc = "sync"
    /\ LET user == req[r].user
           ctx == req[r].ctx
           dirty == ChangedClaims(user, ctx)
           synced == [f \in DOMAIN user |-> IF f \in dirty THEN ctx[f] ELSE user[f]]
       IN /\ users' = [users EXCEPT ![user.id] =
                           [f \in DOMAIN user |->
                               IF f \in dirty THEN ctx[f] ELSE users[user.id][f]]]
          /\ req' = [req EXCEPT ![r].pc = "synced", ![r].user = synced]
    /\ UNCHANGED notRecon

\* A _sync_user_claims that also sets the record active again.
sync_user_claims_reactivates(r) ==
    /\ req[r].pc = "sync"
    /\ LET user == req[r].user
           ctx == req[r].ctx
           dirty == ChangedClaims(user, ctx)
           synced == [f \in DOMAIN user |->
                         IF f \in dirty THEN ctx[f]
                         ELSE IF f = "is_active" THEN TRUE ELSE user[f]]
       IN IF dirty = {}
          THEN /\ req' = [req EXCEPT ![r].pc = "done",
                                     ![r].result = [status |-> 200, user |-> user]]
               /\ UNCHANGED users
          ELSE /\ users' = [users EXCEPT ![user.id] =
                                [f \in DOMAIN user |->
                                    IF f \in dirty THEN ctx[f]
                                    ELSE IF f = "is_active" THEN TRUE
                                    ELSE users[user.id][f]]]
               /\ req' = [req EXCEPT ![r].pc = "synced", ![r].user = synced]
    /\ UNCHANGED notRecon

\* _sync_user_claims: compare, assign, and commit only if something changed.
\* The commit updates the changed columns of the row with the object's id.
sync_user_claims(r) ==
    /\ req[r].pc = "sync"
    /\ LET user == req[r].user
           ctx == req[r].ctx
           dirty == ChangedClaims(user, ctx)
           synced == [f \in DOMAIN user |-> IF f \in dirty THEN ctx[f] ELSE user[f]]
       IN IF dirty = {}
          THEN /\ req' = [req EXCEPT ![r].pc = "done",
                                     ![r].result = [status |-> 200, user |-> user]]
               /\ UNCHANGED users
          ELSE /\ users' = [users EXCEPT ![user.id] =
                                [f \in DOMAIN user |->
                                    IF f \in dirty THEN ctx[f] ELSE users[user.id][f]]]
               /\ req' = [req EXCEPT ![r].pc = "synced", ![r].user = synced]
    /\ UNCHANGED notRecon

\* _sync_user_claims: db.refresh(user) after the commit; get_current_user returns.
sync_refresh(r) ==
    /\ req[r].pc = "synced"
    /\ LET user == users[req[r].user.id]
       IN req' = [req EXCEPT ![r].pc = "done", ![r].user = user,
                             ![r].synced = TRUE,
                             ![r].result = [status |-> 200, user |-> user]]
    /\ UNCHANGED users
    /\ UNCHANGED notRecon

\* get_current_user on one event loop: the coroutine never awaits, so a call
\* starts only when no other call is under way.
get_current_user_in_turn(r, ctx) ==
    /\ \A q \in Requests : req[q].pc \in {"idle", "done"}
    /\ get_current_user(r, ctx)

\* Reconcile calls made one after another.
ReconSerialNext ==
    \/ \E r \in Requests, ctx \in UserContext : get_current_user_in_turn(r, ctx)
    \/ \E r \in Requests : find_or_create_lookup(r)
    \/ \E r \in Requests : find_or_create_commit(r)
    \/ \E r \in Requests : find_or_create_refresh(r)
    \/ \E r \in Requests : sync_user_claims(r)
    \/ \E r \in Requests : sync_refresh(r)

ReconNext ==
    \/ \E r \in Requests, ctx \in UserContext : get_current_user(r, ctx)
    \/ \E r \in Requests : find_or_create_lookup(r)
    \/ \E r \in Requests : find_or_create_commit(r)
    \/ \E r \in Requests : find_or_create_refresh(r)
    \/ \E r \in Requests : find_or_create_conflict(r)
    \/ \E r \in Requests : sync_user_claims(r)
    \/ \E r \in Requests : sync_refresh(r)

(***************************************************************************)
(* auth-service/app/core/jwt.py : the signing key pair                     *)
(***************************************************************************)
KeyThreads == 1..NumThreads

\* PEM text of the private and of the public half of key pair k.
PrivatePem(k) == <<"private", k>>

PublicPem(k) == <<"public", k>>

\* _generate_rsa_keys(): the k-th generated pair; its halves belong together.
_generate_rsa_keys(k) == [private |-> PrivatePem(k), public |-> PublicPem(k)]

\* Key pair 0 is the pair supplied through the environment, when one is.
KeySettings == [jwt_private_key : {None, PrivatePem(0)},
                jwt_public_key : {None, PublicPem(0)}]

KeyThreadIdle == [pc |-> "idle", pair |-> None, private |-> None]

KeysInit ==
    /\ auth_settings \in KeySettings
    /\ _private_key = None
    /\ _public_key = None
    /\ generated = 0
    /\ observed = {}
    /\ kt = [t \in KeyThreads |-> KeyThreadIdle]

\* The issuer at rest with no configured pair, for specifications of other components.
KeysRest ==
    /\ auth_settings = [jwt_private_key |-> None, jwt_public_key |-> None]
    /\ _private_key = None
    /\ _public_key = None
    /\ generated = 0
    /\ observed = {}
    /\ kt = [t \in KeyThreads |-> KeyThreadIdle]

\* _get_keys, line 47-48: a configured pair is returned as it is.
get_keys_configured(t) ==
    /\ kt[t].pc = "idle"
    /\ auth_settings.jwt_private_key # None /\ auth_settings.jwt_public_key # None
    /\ observed' = observed \cup {[private |-> auth_settings.jwt_private_key,
                                    public |-> auth_settings.jwt_public_key]}
    /\ UNCHANGED <<auth_settings, _private_key, _public_key, generated, kt>>
    /\ UNCHANGED notKeys

\* _get_keys, line 50: the caller reads _private_key (and, only when that is
\* set, _public_key) to decide whether a pair has to be generated.
get_keys_enter(t) ==
    /\ kt[t].pc = "idle"
    /\ ~(auth_settings.jwt_private_key # None /\ auth_settings.jwt_public_key # None)
    /\ kt' = [kt EXCEPT ![t].pc = "check_private"]
    /\ UNCHANGED <<auth_settings, _private_key, _public_key, generated, observed>>
    /\ UNCHANGED notKeys

get_keys_check_private(t) ==
    /\ kt[t].pc = "check_private"
    /\ kt' = [kt EXCEPT ![t].pc = IF _private_key = None THEN "generate"
                                  ELSE "check_public"]
    /\ UNCHANGED <<auth_settings, _private_key, _public_key, generated, observed>>
    /\ UNCHANGED notKeys

get_keys_check_public(t) ==
    /\ kt[t].pc = "check_public"
    /\ kt' = [kt EXCEPT ![t].pc = IF _public_key = None THEN "generate"
                                  ELSE "load_private"]
    /\ UNCHANGED <<auth_settings, _private_key, _public_key, generated, observed>>
    /\ UNCHANGED notKeys

\* _get_keys, line 52: the call of _generate_rsa_keys().
get_keys_generate(t) ==
    /\ kt[t].pc = "generate"
    /\ generated' = generated + 1
    /\ kt' = [kt EXCEPT ![t].pc = "store_private",
                        ![t].pair = _generate_rsa_keys(generated + 1)]
    /\ UNCHANGED <<auth_settings, _private_key, _public_key, observed>>
    /\ UNCHANGED notKeys

\* _get_keys, line 52: the tuple assignment stores the two globals in turn.
get_keys_store_private(t) ==
    /\ kt[t].pc = "store_private"
    /\ _private_key' = kt[t].pair.private
    /\ kt' = [kt EXCEPT ![t].pc = "store_public"]
    /\ UNCHANGED <<auth_settings, _public_key, generated, observed>>
    /\ UNCHANGED notKeys

get_keys_store_public(t) ==
    /\ kt[t].pc = "store_public"
    /\ _public_key' = kt[t].pair.public
    /\ kt' = [kt EXCEPT ![t].pc = "load_private", ![t].pair = None]
    /\ UNCHANGED <<auth_settings, _private_key, generated, observed>>
    /\ UNCHANGED notKeys

\* _get_keys, line 55: return _private_key, _public_key reads the globals in turn.
get_keys_load_private(t) ==
    /\ kt[t].pc = "load_private"
    /\ kt' = [kt EXCEPT ![t].pc = "load_public", ![t].private = _private_key]
    /\ UNCHANGED <<auth_settings, _private_key, _public_key, generated, observed>>
    /\ UNCHANGED notKeys

get_keys_return(t) ==
    /\ kt[t].pc = "load_public"
    /\ observed' = observed \cup {[private |-> kt[t].private, public |-> _public_key]}
    /\ kt' = [kt EXCEPT ![t] = KeyThreadIdle]
    /\ UNCHANGED <<auth_settings, _private_key, _public_key, generated>>
    /\ UNCHANGED notKeys

KeysNext ==
    \/ \E t \in KeyThreads : get_keys_configured(t)
    \/ \E t \in KeyThreads : get_keys_enter(t)
    \/ \E t \in KeyThreads : get_keys_check_private(t)
    \/ \E t \in KeyThreads : get_keys_check_public(t)
    \/ \E t \in KeyThreads : get_keys_generate(t)
    \/ \E t \in KeyThreads : get_keys_store_private(t)
    \/ \E t \in KeyThreads : get_keys_store_public(t)
    \/ \E t \in KeyThreads : get_keys_load_private(t)
    \/ \E t \in KeyThreads : get_keys_return(t)

(***************************************************************************)
(* Tokens: jose's jwt.encode / jwt.decode as the two services call them    *)
(***************************************************************************)
DigitChars == <<"0", "1", "2", "3", "4", "5", "6", "7", "8", "9">>

\* str(user_id): the decimal digits of a non-negative integer.
RECURSIVE str(_)
str(n) == IF n < 10 THEN <<DigitChars[n + 1]>>
          ELSE Append(str(n \div 10), DigitChars[(n % 10) + 1])

DigitValue(c) == CHOOSE d \in 0..9 : DigitChars[d + 1] = c

\* int(user_id): the integer a string of decimal digits denotes.
RECURSIVE int(_)
int(s) == IF Len(s) = 1 THEN DigitValue(s[1])
          ELSE 10 * int(SubSeq(s, 1, Len(s) - 1)) + DigitValue(s[Len(s)])

\* settings.access_token_expire_minutes of the auth service.
access_token_expire_minutes == 60

\* timedelta(minutes=m) in seconds.
timedelta_minutes(m) == 60 * m

\* jwt.encode(payload, key, algorithm): header, claims and the key that signed.
jwt_encode(payload, key, algorithm) ==
    [kind |-> "jwt", alg |-> algorithm, sig |-> key, claims |-> payload]

\* A create_access_token that always takes the configured lifetime.
create_access_token_default_ttl(user_id, email, is_admin, full_name, expires_delta, private_key, t) ==
    LET delta == timedelta_minutes(access_token_expire_minutes)
        payload == [sub |-> str(user_id), email |-> email, name |-> full_name,
                    admin |-> is_admin, iat |-> t, exp |-> t + delta,
                    iss |-> "auth-service"]
    IN jwt_encode(payload, private_key, "RS256")

\* create_access_token(user_id, email, is_admin, full_name, expires_delta),
\* signed with private_key at time t. expires_delta is in seconds, or None.
create_access_token(user_id, email, is_admin, full_name, expires_delta, private_key, t) ==
    LET delta == IF expires_delta = None
                 THEN timedelta_minutes(access_token_expire_minutes)
                 ELSE expires_delta[1]
        payload == [sub |-> str(user_id), email |-> email, name |-> full_name,
                    admin |-> is_admin, iat |-> t, exp |-> t + delta,
                    iss |-> "auth-service"]
    IN jwt_encode(payload, private_key, "RS256")

\* Signature verification: an RS256 signature verifies under the public half
\* of the pair whose private half signed; an HS256 signature verifies under
\* the very secret that signed.
VerifySignature(token, key) ==
    IF token.alg = "RS256"
    THEN \E k \in 0..(MaxKeys + 1) : token.sig = PrivatePem(k) /\ key = PublicPem(k)
    ELSE token.sig = key

JwtError(why) == [ok |-> FALSE, error |-> why, claims |-> None]

\* A jwt.decode that never looks at exp.
jwt_decode_never_expires(token, key, algorithms, options, issuer, t) ==
    IF token.kind # "jwt" THEN JwtError("malformed")
    ELSE IF token.alg \notin algorithms THEN JwtError("algorithm")
    ELSE IF options.verify_signature /\ ~VerifySignature(token, key)
         THEN JwtError("signature")
    ELSE IF \E c \in options.require : c \notin DOMAIN token.claims
         THEN JwtError("missing")
    ELSE IF issuer # None /\ ("iss" \notin DOMAIN token.claims
                              \/ token.claims.iss # issuer[1])
         THEN JwtError("issuer")
    ELSE [ok |-> TRUE, error |-> "", claims |-> token.claims]

\* jwt.decode(token, key, algorithms=..., options=..., issuer=...) evaluated at
\* time t. options.require holds the claims c with "require_<c>": True;
\* issuer is None when the caller asks for no issuer.
jwt_decode(token, key, algorithms, options, issuer, t) ==
    IF token.kind # "jwt" THEN JwtError("malformed")
    ELSE IF token.alg \notin algorithms THEN JwtError("algorithm")
    ELSE IF options.verify_signature /\ ~VerifySignature(token, key)
         THEN JwtError("signature")
    ELSE IF \E c \in options.require : c \notin DOMAIN token.claims
         THEN JwtError("missing")
    ELSE IF "exp" \in DOMAIN token.claims /\ token.claims.exp < t
         THEN JwtError("expired")
    ELSE IF issuer # None /\ ("iss" \notin DOMAIN token.claims
                              \/ token.claims.iss # issuer[1])
         THEN JwtError("issuer")
    ELSE [ok |-> TRUE, error |-> "", claims |-> token.claims]

(***************************************************************************)
(* backend/app/core/security.py : the cached public key and decode_token   *)
(***************************************************************************)
PUBLIC_KEY_TTL_SECONDS == 86400

\* The clock when the model starts: a present-day time.time(), far more than
\* the TTL after the zero that _public_key_fetched_at starts from.
StartTime == 1000000

ValidatorThreads == 1..NumValidatorThreads

\* What _fetch_public_key can end with: the key, or one of its exceptions.
FetchOutcomes == {"ok", "ConnectError", "TimeoutException", "HTTPStatusError",
                  "JSONDecodeError", "KeyError"}

\* The exceptions of _fetch_public_key that are httpx.HTTPError.
IsHTTPError(exc) == exc \in {"ConnectError", "TimeoutException", "HTTPStatusError"}

\* A decode_token that handles JWTError and nothing else.
decode_token_catches_jwt_only(exc) == exc = "JWTError"

\* decode_token's handlers: JWTError, httpx.HTTPError, then Exception.
decode_token_catches(exc) ==
    exc = "JWTError" \/ IsHTTPError(exc) \/ exc \in FetchOutcomes \ {"ok"}

\* A decode that skips the signature check.
backend_jwt_decode_unverified(token, public_key, t) ==
    jwt_decode(token, public_key, {"RS256"},
               [verify_signature |-> FALSE, require |-> {"exp"}],
               Some("auth-service"), t)

\* A decode that asks for no issuer.
backend_jwt_decode_any_issuer(token, public_key, t) ==
    jwt_decode(token, public_key, {"RS256"},
               [verify_signature |-> TRUE, require |-> {"exp"}], None, t)

\* decode_token's call of jwt.decode.
backend_jwt_decode(token, public_key, t) ==
    jwt_decode(token, public_key, {"RS256"},
               [verify_signature |-> TRUE, require |-> {"exp"}],
               Some("auth-service"), t)

\* payload.get(c, default)
payload_get(payload, c, default) ==
    IF c \in DOMAIN payload THEN payload[c] ELSE default

\* A get_user_context whose 401 says what was wrong with the token.
get_user_context_tells_why(decoded) ==
    IF ~decoded.ok
    THEN [status |-> 401, detail |-> decoded.error, ctx |-> None]
    ELSE IF "sub" \notin DOMAIN decoded.claims \/ "email" \notin DOMAIN decoded.claims
    THEN [status |-> 401, detail |-> "Could not validate credentials", ctx |-> None]
    ELSE [status |-> 200, detail |-> "",
          ctx |-> [auth_service_id |-> int(decoded.claims.sub),
                   email |-> decoded.claims.email,
                   full_name |-> payload_get(decoded.claims, "name", None),
                   is_admin |-> payload_get(decoded.claims, "admin", FALSE)]]

\* get_user_context after decode_token: 401 without a payload, a sub or an
\* email, else the UserContext built from the claims.
get_user_context(decoded) ==
    IF ~decoded.ok
    THEN [status |-> 401, detail |-> "Could not validate credentials", ctx |-> None]
    ELSE IF "sub" \notin DOMAIN decoded.claims \/ "email" \notin DOMAIN decoded.claims
    THEN [status |-> 401, detail |-> "Could not validate credentials", ctx |-> None]
    ELSE [status |-> 200, detail |-> "",
          ctx |-> [auth_service_id |-> int(decoded.claims.sub),
                   email |-> decoded.claims.email,
                   full_name |-> payload_get(decoded.claims, "name", None),
                   is_admin |-> payload_get(decoded.claims, "admin", FALSE)]]

NoResult == [outcome |-> "none"]

ValidatorIdle ==
    [pc |-> "idle", op |-> "", force_refresh |-> FALSE, now |-> 0,
     key_expired |-> FALSE, fetched |-> None, nfetch |-> 0, failed |-> "",
     before |-> None, public_key |-> None, result |-> NoResult]

\* The principals tokens are issued for: (user id, email, full name, admin).
Principals ==
    { [user_id |-> 7, email |-> "a@x.com", full_name |-> None, is_admin |-> FALSE],
      [user_id |-> 123, email |-> "b@x.com", full_name |-> Some("Ann"), is_admin |-> TRUE],
      [user_id |-> 123, email |-> "a@x.com", full_name |-> Some("Ann"), is_admin |-> FALSE] }

\* expires_delta as callers pass it: absent, or a custom number of seconds.
ExpiresDeltas == {None, Some(1)}

ValidatorInit ==
    /\ issued = None
    /\ backend_settings \in [jwt_public_key : {None, PublicPem(1)}]
    /\ _cached_public_key = None
    /\ _public_key_fetched_at = 0
    /\ delivered = {}
    /\ vt = [t \in ValidatorThreads |-> ValidatorIdle]

\* The validator at rest with no static key, for specifications of other components.
ValidatorRest ==
    /\ issued = None
    /\ backend_settings = [jwt_public_key |-> None]
    /\ _cached_public_key = None
    /\ _public_key_fetched_at = 0
    /\ delivered = {}
    /\ vt = [t \in ValidatorThreads |-> ValidatorIdle]

ClockInit == now = StartTime /\ ticks = 0

\* The issuer once its first caller has generated pair 1 (a state _get_keys reaches).
IssuerReady ==
    /\ auth_settings = [jwt_private_key |-> None, jwt_public_key |-> None]
    /\ _private_key = PrivatePem(1)
    /\ _public_key = PublicPem(1)
    /\ generated = 1
    /\ observed = {}
    /\ kt = [t \in KeyThreads |-> KeyThreadIdle]

notVal == <<reconVars, auth_settings, observed, kt, refreshVars, rateVars, otherVars>>

\* time passes: d seconds.
tick(d) ==
    /\ ticks < MaxTicks
    /\ \A t \in ValidatorThreads : vt[t].pc # "done"
    /\ now' = now + d
    /\ ticks' = ticks + 1
    /\ UNCHANGED <<notVal, valVars, _private_key, _public_key, generated>>

\* The auth service is restarted: the new process generates a new pair on
\* first use (the pair lives in process memory only).
issuer_restart ==
    /\ generated < MaxKeys
    /\ \A t \in ValidatorThreads : vt[t].pc # "done"
    /\ generated' = generated + 1
    /\ _private_key' = _generate_rsa_keys(generated + 1).private
    /\ _public_key' = _generate_rsa_keys(generated + 1).public
    /\ rotated_at' = now
    /\ UNCHANGED <<reconVars, auth_settings, observed, kt, refreshVars, rateVars,
                   rateKeyVars, endpointVars, shopVars, registerVars, laterVars,
                   valVars, clockVars>>

\* login / refresh hand out create_access_token(...) for principal p.
issue_token(p, expires_delta) ==
    /\ issued = None
    /\ \A t \in ValidatorThreads : vt[t].pc # "done"
    /\ issued' = [token |-> create_access_token(p.user_id, p.email, p.is_admin,
                                                p.full_name, expires_delta,
                                                _private_key, now),
                  principal |-> p, key |-> _private_key]
    /\ UNCHANGED <<notVal, clockVars, backend_settings, _cached_public_key,
                   _public_key_fetched_at, delivered, vt,
                   _private_key, _public_key, generated>>

\* Remove claim c from a payload.
Without(payload, c) == [k \in (DOMAIN payload) \ {c} |-> payload[k]]

\* The payload of a well-formed token that is unexpired at time t.
WellFormedPayload(t) ==
    [sub |-> str(7), email |-> "a@x.com", name |-> None, admin |-> TRUE,
     iat |-> t, exp |-> t + 60, iss |-> "auth-service"]

\* The payloads a client may present: the well-formed one and its defects.
PayloadVariants ==
    {"well-formed", "other-issuer", "no-issuer", "expired", "no-exp",
     "no-sub", "no-email", "no-name-no-admin"}

PresentedPayload(variant, t) ==
    LET p == WellFormedPayload(t)
    IN CASE variant = "well-formed" -> p
         [] variant = "other-issuer" -> [p EXCEPT !.iss = "other-service"]
         [] variant = "no-issuer" -> Without(p, "iss")
         [] variant = "expired" -> [p EXCEPT !.exp = t - 1]
         [] variant = "no-exp" -> Without(p, "exp")
         [] variant = "no-sub" -> Without(p, "sub")
         [] variant = "no-email" -> Without(p, "email")
         [] variant = "no-name-no-admin" -> Without(Without(p, "name"), "admin")

\* What a request may carry as its bearer token: the token the issuer handed
\* out; a payload signed with the issuer's current key; a well-formed payload
\* signed with the issuer's first key or with somebody else's key (pair 0);
\* an HS256 token keyed with the published public key; a string that is no
\* JWT; the empty string.
Presented ==
    {[kind |-> "issued", variant |-> "", signer |-> ""]}
    \cup {[kind |-> "RS256", variant |-> v, signer |-> "current"] : v \in PayloadVariants}
    \cup {[kind |-> "RS256", variant |-> "well-formed", signer |-> k] : k \in {"first", "foreign"}}
    \cup {[kind |-> "HS256", variant |-> "well-formed", signer |-> "public"],
          [kind |-> "garbage", variant |-> "", signer |-> ""],
          [kind |-> "empty", variant |-> "", signer |-> ""]}

\* The token a presented choice stands for at time t.
BearerToken(presented, t) ==
    CASE presented.kind = "issued" -> issued.token
      [] presented.kind = "RS256" ->
             jwt_encode(PresentedPayload(presented.variant, t),
                        CASE presented.signer = "current" -> _private_key
                          [] presented.signer = "first" -> PrivatePem(1)
                          [] presented.signer = "foreign" -> PrivatePem(0),
                        "RS256")
      [] presented.kind = "HS256" ->
             jwt_encode(WellFormedPayload(t), _public_key, "HS256")
      [] presented.kind = "garbage" -> [kind |-> "garbage"]
      [] presented.kind = "empty" -> [kind |-> "empty"]

\* What a call sees of the cache when it starts.
CacheSnapshot ==
    [key |-> _cached_public_key, fetched_at |-> _public_key_fetched_at, at |-> now]

valFrame == <<notVal, clockVars, issued, backend_settings,
              _private_key, _public_key, generated>>

\* A caller enters get_public_key(force_refresh).
begin_get_public_key(t, force_refresh) ==
    /\ vt[t].pc = "idle"
    /\ vt' = [vt EXCEPT ![t] = [ValidatorIdle EXCEPT !.pc = "enter",
                                    !.op = "get_public_key",
                                    !.force_refresh = force_refresh,
                                    !.before = CacheSnapshot]]
    /\ UNCHANGED <<valFrame, _cached_public_key, _public_key_fetched_at, delivered>>

\* A request with a bearer token enters get_user_context -> decode_token,
\* which calls get_public_key().
begin_request(t) ==
    /\ vt[t].pc = "idle"
    /\ vt' = [vt EXCEPT ![t] = [ValidatorIdle EXCEPT !.pc = "enter",
                                    !.op = "request",
                                    !.before = CacheSnapshot]]
    /\ UNCHANGED <<valFrame, _cached_public_key, _public_key_fetched_at, delivered>>

\* A caller enters clear_public_key_cache().
begin_clear(t) ==
    /\ vt[t].pc = "idle"
    /\ vt' = [vt EXCEPT ![t] = [ValidatorIdle EXCEPT !.pc = "clear_key",
                                    !.op = "clear", !.before = CacheSnapshot]]
    /\ UNCHANGED <<valFrame, _cached_public_key, _public_key_fetched_at, delivered>>

\* A get_public_key that has no static-key branch.
gpk_enter_no_static(t) ==
    /\ vt[t].pc = "enter"
    /\ vt' = [vt EXCEPT ![t].pc = "check", ![t].now = now,
                ![t].key_expired =
                    (now - _public_key_fetched_at) > PUBLIC_KEY_TTL_SECONDS]
    /\ UNCHANGED <<valFrame, _cached_public_key, _public_key_fetched_at, delivered>>

\* A get_public_key whose cached key expires at an age of exactly the TTL.
gpk_enter_expires_at_ttl(t) ==
    /\ vt[t].pc = "enter"
    /\ IF backend_settings.jwt_public_key # None
       THEN /\ _cached_public_key' = backend_settings.jwt_public_key
            /\ vt' = [vt EXCEPT ![t].pc = "return"]
       ELSE /\ vt' = [vt EXCEPT ![t].pc = "check", ![t].now = now,
                        ![t].key_expired =
                            (now - _public_key_fetched_at) >= PUBLIC_KEY_TTL_SECONDS]
            /\ UNCHANGED _cached_public_key
    /\ UNCHANGED <<valFrame, _public_key_fetched_at, delivered>>

\* get_public_key, lines 45-47 and 51-52: with a static key, copy it into the
\* global if it differs; without, read the clock and compute key_expired.
gpk_enter(t) ==
    /\ vt[t].pc = "enter"
    /\ IF backend_settings.jwt_public_key # None
       THEN /\ _cached_public_key' = backend_settings.jwt_public_key
            /\ vt' = [vt EXCEPT ![t].pc = "return"]
       ELSE /\ vt' = [vt EXCEPT ![t].pc = "check", ![t].now = now,
                        ![t].key_expired =
                            (now - _public_key_fetched_at) > PUBLIC_KEY_TTL_SECONDS]
            /\ UNCHANGED _cached_public_key
    /\ UNCHANGED <<valFrame, _public_key_fetched_at, delivered>>

\* A get_public_key that ignores force_refresh.
gpk_check_ignores_force(t) ==
    /\ vt[t].pc = "check"
    /\ vt' = [vt EXCEPT ![t].pc =
                 IF _cached_public_key = None \/ vt[t].key_expired
                 THEN "fetch" ELSE "return"]
    /\ UNCHANGED <<valFrame, _cached_public_key, _public_key_fetched_at, delivered>>

\* A get_public_key whose cached key never expires.
gpk_check_ignores_expiry(t) ==
    /\ vt[t].pc = "check"
    /\ vt' = [vt EXCEPT ![t].pc =
                 IF _cached_public_key = None \/ vt[t].force_refresh
                 THEN "fetch" ELSE "return"]
    /\ UNCHANGED <<valFrame, _cached_public_key, _public_key_fetched_at, delivered>>

\* get_public_key, line 54: is a fetch needed?
gpk_check(t) ==
    /\ vt[t].pc = "check"
    /\ vt' = [vt EXCEPT ![t].pc =
                 IF _cached_public_key = None \/ vt[t].force_refresh \/ vt[t].key_expired
                 THEN "fetch" ELSE "return"]
    /\ UNCHANGED <<valFrame, _cached_public_key, _public_key_fetched_at, delivered>>

\* How a call ends when exception exc leaves get_public_key: decode_token
\* turns what it catches into None, so the request is answered 401.
Raised(t, exc) ==
    IF vt[t].op = "request" /\ decode_token_catches(exc)
    THEN [outcome |-> "returned", status |-> 401,
          detail |-> get_user_context(JwtError("key")).detail,
          ctx |-> None, payload |-> None,
          token |-> None, public_key |-> None, at |-> now]
    ELSE [outcome |-> "raised", status |-> 500, detail |-> "",
          ctx |-> None, payload |-> None,
          token |-> None, public_key |-> None, at |-> now]

\* A get_public_key that falls back to the key it holds when the fetch fails.
gpk_fetch_falls_back(t, outcome) ==
    /\ vt[t].pc = "fetch"
    /\ IF outcome = "ok"
       THEN /\ vt' = [vt EXCEPT ![t].pc = "store_key", ![t].fetched = _public_key,
                                ![t].nfetch = vt[t].nfetch + 1]
            /\ delivered' = delivered \cup {_public_key}
       ELSE IF _cached_public_key # None
       THEN /\ vt' = [vt EXCEPT ![t].pc = "return", ![t].failed = outcome,
                                ![t].nfetch = vt[t].nfetch + 1]
            /\ UNCHANGED delivered
       ELSE /\ vt' = [vt EXCEPT ![t].pc = "done", ![t].failed = outcome,
                                ![t].nfetch = vt[t].nfetch + 1,
                                ![t].result = Raised(t, outcome)]
            /\ UNCHANGED delivered
    /\ UNCHANGED <<valFrame, _cached_public_key, _public_key_fetched_at>>

\* get_public_key, line 55: _fetch_public_key() asks the issuer for its
\* current public key; the call returns it or raises.
gpk_fetch(t, outcome) ==
    /\ vt[t].pc = "fetch"
    /\ IF outcome = "ok"
       THEN /\ vt' = [vt EXCEPT ![t].pc = "store_key", ![t].fetched = _public_key,
                                ![t].nfetch = vt[t].nfetch + 1]
            /\ delivered' = delivered \cup {_public_key}
       ELSE /\ vt' = [vt EXCEPT ![t].pc = "done", ![t].failed = outcome,
                                ![t].nfetch = vt[t].nfetch + 1,
                                ![t].result = Raised(t, outcome)]
            /\ UNCHANGED delivered
    /\ UNCHANGED <<valFrame, _cached_public_key, _public_key_fetched_at>>

\* get_public_key, line 55: the assignment to _public_key.
gpk_store_key(t) ==
    /\ vt[t].pc = "store_key"
    /\ _cached_public_key' = vt[t].fetched
    /\ vt' = [vt EXCEPT ![t].pc = "store_time"]
    /\ UNCHANGED <<valFrame, _public_key_fetched_at, delivered>>

\* get_public_key, line 56: _public_key_fetched_at = now (the clock as read on entry).
gpk_store_time(t) ==
    /\ vt[t].pc = "store_time"
    /\ _public_key_fetched_at' = vt[t].now
    /\ vt' = [vt EXCEPT ![t].pc = "return"]
    /\ UNCHANGED <<valFrame, _cached_public_key, delivered>>

\* get_public_key, lines 48 and 58: return _public_key reads the global.
gpk_return(t) ==
    /\ vt[t].pc = "return"
    /\ IF vt[t].op = "request"
       THEN vt' = [vt EXCEPT ![t].pc = "decode", ![t].public_key = _cached_public_key]
       ELSE vt' = [vt EXCEPT ![t].pc = "done",
                     ![t].result = [outcome |-> "returned", status |-> 200,
                                    detail |-> "", ctx |-> None, payload |-> None, token |-> None,
                                    public_key |-> _cached_public_key, at |-> now]]
    /\ UNCHANGED <<valFrame, _cached_public_key, _public_key_fetched_at, delivered>>

\* decode_token, lines 81-98, and get_user_context, lines 54-67, on the
\* request's bearer token.
request_decode(t, presented) ==
    /\ vt[t].pc = "decode"
    /\ presented.kind = "issued" => issued # None
    /\ LET token == BearerToken(presented, now)
           decoded == backend_jwt_decode(token, vt[t].public_key, now)
           answer == get_user_context(decoded)
       IN vt' = [vt EXCEPT ![t].pc = "done",
                   ![t].result = [outcome |-> "returned", status |-> answer.status,
                                  detail |-> answer.detail, ctx |-> answer.ctx,
                                  payload |-> IF decoded.ok THEN decoded.claims ELSE None,
                                  token |-> token, public_key |-> vt[t].public_key,
                                  at |-> now]]
    /\ UNCHANGED <<valFrame, _cached_public_key, _public_key_fetched_at, delivered>>

\* A clear_public_key_cache that leaves the key where it is.
clear_key_keeps_key(t) ==
    /\ vt[t].pc = "clear_key"
    /\ vt' = [vt EXCEPT ![t].pc = "clear_time"]
    /\ UNCHANGED <<valFrame, _cached_public_key, _public_key_fetched_at, delivered>>

\* clear_public_key_cache, line 64.
clear_key(t) ==
    /\ vt[t].pc = "clear_key"
    /\ _cached_public_key' = None
    /\ vt' = [vt EXCEPT ![t].pc = "clear_time"]
    /\ UNCHANGED <<valFrame, _public_key_fetched_at, delivered>>

\* clear_public_key_cache, line 65.
clear_time(t) ==
    /\ vt[t].pc = "clear_time"
    /\ _public_key_fetched_at' = 0
    /\ vt' = [vt EXCEPT ![t].pc = "done",
                ![t].result = [outcome |-> "returned", status |-> 200,
                               detail |-> "", ctx |-> None, payload |-> None, token |-> None,
                               public_key |-> None, at |-> now]]
    /\ UNCHANGED <<valFrame, _cached_public_key, delivered>>

\* The caller has its answer; the thread is free for the next call.
finish(t) ==
    /\ vt[t].pc = "done"
    /\ vt' = [vt EXCEPT ![t] = ValidatorIdle]
    /\ UNCHANGED <<valFrame, _cached_public_key, _public_key_fetched_at, delivered>>

\* Seconds the clock advances by in one step.
TokenTickSteps == {1, timedelta_minutes(access_token_expire_minutes)}
CacheTickSteps == {1, PUBLIC_KEY_TTL_SECONDS}

\* Requests validated one after another on the event loop (get_user_context
\* is a coroutine that never awaits), while the issuer hands out tokens, is
\* restarted, and time passes.
TokenNext ==
    \/ \E d \in TokenTickSteps : tick(d)
    \/ issuer_restart
    \/ \E p \in Principals, expires_delta \in ExpiresDeltas : issue_token(p, expires_delta)
    \/ begin_request(1)
    \/ gpk_enter(1)
    \/ gpk_check(1)
    \/ \E outcome \in FetchOutcomes : gpk_fetch(1, outcome)
    \/ gpk_store_key(1)
    \/ gpk_store_time(1)
    \/ gpk_return(1)
    \/ \E presented \in Presented : request_decode(1, presented)
    \/ finish(1)

\* Calls of get_public_key and clear_public_key_cache one after another.
CacheNext ==
    \/ \E d \in CacheTickSteps : tick(d)
    \/ issuer_restart
    \/ \E force_refresh \in BOOLEAN : begin_get_public_key(1, force_refresh)
    \/ begin_clear(1)
    \/ gpk_enter(1)
    \/ gpk_check(1)
    \/ \E outcome \in FetchOutcomes : gpk_fetch(1, outcome)
    \/ gpk_store_key(1)
    \/ gpk_store_time(1)
    \/ gpk_return(1)
    \/ clear_key(1)
    \/ clear_time(1)
    \/ finish(1)

\* Requests and get_public_key calls one after another while the cached key
\* ages past its TTL.
StaleKeyNext ==
    \/ \E d \in CacheTickSteps : tick(d)
    \/ issuer_restart
    \/ \E force_refresh \in BOOLEAN : begin_get_public_key(1, force_refresh)
    \/ begin_request(1)
    \/ gpk_enter(1)
    \/ gpk_check(1)
    \/ \E outcome \in FetchOutcomes : gpk_fetch(1, outcome)
    \/ gpk_store_key(1)
    \/ gpk_store_time(1)
    \/ gpk_return(1)
    \/ \E presented \in Presented : request_decode(1, presented)
    \/ finish(1)

\* The same calls made from several threads, interleaved statement by statement.
CacheThreadsNext ==
    \/ issuer_restart
    \/ \E t \in ValidatorThreads, force_refresh \in BOOLEAN :
           begin_get_public_key(t, force_refresh)
    \/ \E t \in ValidatorThreads : begin_clear(t)
    \/ \E t \in ValidatorThreads : gpk_enter(t)
    \/ \E t \in ValidatorThreads : gpk_check(t)
    \/ \E t \in ValidatorThreads, outcome \in FetchOutcomes : gpk_fetch(t, outcome)
    \/ \E t \in ValidatorThreads : gpk_store_key(t)
    \/ \E t \in ValidatorThreads : gpk_store_time(t)
    \/ \E t \in ValidatorThreads : gpk_return(t)
    \/ \E t \in ValidatorThreads : clear_key(t)
    \/ \E t \in ValidatorThreads : clear_time(t)
    \/ \E t \in ValidatorThreads : finish(t)

(***************************************************************************)
(* auth-service/app/api/routes/auth.py : login and refresh                 *)
(***************************************************************************)
\* settings.refresh_token_expire_days of the auth service.
refresh_token_expire_days == 7

\* timedelta(days=d) in seconds.
timedelta_days(d) == 86400 * d

\* create_refresh_token(): the n-th random string secrets.token_urlsafe draws.
create_refresh_token(n) == <<"token_urlsafe", n>>

\* A hash_refresh_token that stores the string as it is.
hash_refresh_token_identity(token) == token

\* hash_refresh_token(token): the SHA-256 hex digest of the string.
hash_refresh_token(token) == <<"sha256", token>>

\* The strings a client may present to /refresh: those login returned and
\* one that no login ever returned.
RefreshStrings == {create_refresh_token(n) : n \in 1..(MaxLogins + 1)}

\* What a login form may carry as username.
LoginEmails == Emails \cup {"nobody@x.com"}

\* presented is what the request carried: the form's username and what
\* verify_password says of its password for a login, the string for a refresh.
NoResponse ==
    [op |-> "none", status |-> 0, detail |-> "", headers |-> None,
     access_token |-> None, refresh_token |-> None, presented |-> None,
     user |-> None, at |-> 0]

\* The registered users (register, lines 57-82), all active, no login yet.
RefreshInit ==
    /\ auth_users = [id \in SubjectIds |->
                        IF id = 7
                        THEN [id |-> 7, email |-> "a@x.com", full_name |-> None,
                              is_admin |-> FALSE, is_active |-> TRUE]
                        ELSE [id |-> 123, email |-> "b@x.com", full_name |-> Some("Ann"),
                              is_admin |-> TRUE, is_active |-> TRUE]]
    /\ refresh_tokens = <<>>
    /\ rr = NoResponse
    /\ redeemed = [p \in RefreshStrings |-> 0]

notRefresh == <<reconVars, keyVars, valVars, rateVars, otherVars>>

\* db.query(User).filter(User.email == email).first()
user_by_email(email) ==
    IF \E id \in DOMAIN auth_users : auth_users[id].email = email
    THEN Some(auth_users[CHOOSE id \in DOMAIN auth_users : auth_users[id].email = email])
    ELSE None

\* A login that answers an unknown email differently from a wrong password.
login_tells_unknown(username, password_ok) ==
    /\ Len(refresh_tokens) < MaxLogins
    /\ LET user == user_by_email(username)
           plaintext == create_refresh_token(Len(refresh_tokens) + 1)
       IN IF user = None \/ ~password_ok
          THEN /\ rr' = [NoResponse EXCEPT !.op = "login", !.status = 401,
                            !.detail = IF user = None THEN "Unknown email"
                                       ELSE "Incorrect email or password",
                            !.headers = <<"WWW-Authenticate", "Bearer">>,
                            !.presented = <<username, password_ok>>, !.at = now]
               /\ UNCHANGED refresh_tokens
          ELSE IF ~user[1].is_active
          THEN /\ rr' = [NoResponse EXCEPT !.op = "login", !.status = 401,
                            !.detail = "Account is deactivated",
                            !.presented = <<username, password_ok>>, !.at = now]
               /\ UNCHANGED refresh_tokens
          ELSE /\ refresh_tokens' =
                     Append(refresh_tokens,
                            [user_id |-> user[1].id,
                             token_hash |-> hash_refresh_token(plaintext),
                             expires_at |-> now + timedelta_days(refresh_token_expire_days)])
               /\ rr' = [NoResponse EXCEPT !.op = "login", !.status = 200,
                            !.access_token =
                                create_access_token(user[1].id, user[1].email,
                                                    user[1].is_admin, user[1].full_name,
                                                    None, _private_key, now),
                            !.refresh_token = plaintext,
                            !.presented = <<username, password_ok>>,
                            !.user = user[1], !.at = now]
    /\ UNCHANGED <<auth_users, redeemed, clockVars, notRefresh>>

\* A login that does not look at is_active.
login_skips_active_check(username, password_ok) ==
    /\ Len(refresh_tokens) < MaxLogins
    /\ LET user == user_by_email(username)
           plaintext == create_refresh_token(Len(refresh_tokens) + 1)
       IN IF user = None \/ ~password_ok
          THEN /\ rr' = [NoResponse EXCEPT !.op = "login", !.status = 401,
                            !.detail = "Incorrect email or password",
                            !.headers = <<"WWW-Authenticate", "Bearer">>,
                            !.presented = <<username, password_ok>>, !.at = now]
               /\ UNCHANGED refresh_tokens
          ELSE /\ refresh_tokens' =
                     Append(refresh_tokens,
                            [user_id |-> user[1].id,
                             token_hash |-> hash_refresh_token(plaintext),
                             expires_at |-> now + timedelta_days(refresh_token_expire_days)])
               /\ rr' = [NoResponse EXCEPT !.op = "login", !.status = 200,
                            !.access_token =
                                create_access_token(user[1].id, user[1].email,
                                                    user[1].is_admin, user[1].full_name,
                                                    None, _private_key, now),
                            !.refresh_token = plaintext,
                            !.presented = <<username, password_ok>>,
                            !.user = user[1], !.at = now]
    /\ UNCHANGED <<auth_users, redeemed, clockVars, notRefresh>>

\* POST /login with a form (username, password); password_ok is what
\* verify_password says of the password against the user's hash.
login(username, password_ok) ==
    /\ Len(refresh_tokens) < MaxLogins
    /\ LET user == user_by_email(username)
           plaintext == create_refresh_token(Len(refresh_tokens) + 1)
       IN IF user = None \/ ~password_ok
          THEN /\ rr' = [NoResponse EXCEPT !.op = "login", !.status = 401,
                            !.detail = "Incorrect email or password",
                            !.headers = <<"WWW-Authenticate", "Bearer">>,
                            !.presented = <<username, password_ok>>, !.at = now]
               /\ UNCHANGED refresh_tokens
          ELSE IF ~user[1].is_active
          THEN /\ rr' = [NoResponse EXCEPT !.op = "login", !.status = 401,
                            !.detail = "Account is deactivated",
                            !.presented = <<username, password_ok>>, !.at = now]
               /\ UNCHANGED refresh_tokens
          ELSE /\ refresh_tokens' =
                     Append(refresh_tokens,
                            [user_id |-> user[1].id,
                             token_hash |-> hash_refresh_token(plaintext),
                             expires_at |-> now + timedelta_days(refresh_token_expire_days)])
               /\ rr' = [NoResponse EXCEPT !.op = "login", !.status = 200,
                            !.access_token =
                                create_access_token(user[1].id, user[1].email,
                                                    user[1].is_admin, user[1].full_name,
                                                    None, _private_key, now),
                            !.refresh_token = plaintext,
                            !.presented = <<username, password_ok>>,
                            !.user = user[1], !.at = now]
    /\ UNCHANGED <<auth_users, redeemed, clockVars, notRefresh>>

\* A count, told apart up to MaxRedeemed.
Counted(n) == IF n < MaxRedeemed THEN n ELSE MaxRedeemed

\* A refresh that does not filter on expires_at.
refresh_token_ignores_expiry(presented) ==
    /\ LET token_hash == hash_refresh_token(presented)
           found == {i \in DOMAIN refresh_tokens :
                        refresh_tokens[i].token_hash = token_hash}
       IN IF found = {}
          THEN rr' = [NoResponse EXCEPT !.op = "refresh", !.status = 401,
                         !.detail = "Invalid or expired refresh token",
                         !.presented = presented, !.at = now]
          ELSE LET refresh_token_db == refresh_tokens[CHOOSE i \in found :
                                                         \A j \in found : i <= j]
                   user == auth_users[refresh_token_db.user_id]
               IN IF ~user.is_active
                  THEN rr' = [NoResponse EXCEPT !.op = "refresh", !.status = 401,
                                 !.detail = "Account is deactivated",
                                 !.presented = presented, !.user = user, !.at = now]
                  ELSE rr' = [NoResponse EXCEPT !.op = "refresh", !.status = 200,
                                 !.access_token =
                                     create_access_token(user.id, user.email,
                                                         user.is_admin, user.full_name,
                                                         None, _private_key, now),
                                 !.presented = presented, !.user = user, !.at = now]
    /\ redeemed' = IF rr'.status = 200
                   THEN [redeemed EXCEPT ![presented] = Counted(redeemed[presented] + 1)]
                   ELSE redeemed
    /\ UNCHANGED <<auth_users, refresh_tokens, clockVars, notRefresh>>

\* A refresh whose string is good for one use: the record is deleted on success.
refresh_token_single_use(presented) ==
    /\ LET token_hash == hash_refresh_token(presented)
           found == {i \in DOMAIN refresh_tokens :
                        /\ refresh_tokens[i].token_hash = token_hash
                        /\ refresh_tokens[i].expires_at > now}
       IN IF found = {}
          THEN /\ rr' = [NoResponse EXCEPT !.op = "refresh", !.status = 401,
                            !.detail = "Invalid or expired refresh token",
                            !.presented = presented, !.at = now]
               /\ UNCHANGED refresh_tokens
          ELSE LET refresh_token_db == refresh_tokens[CHOOSE i \in found :
                                                         \A j \in found : i <= j]
                   user == auth_users[refresh_token_db.user_id]
               IN IF ~user.is_active
                  THEN /\ rr' = [NoResponse EXCEPT !.op = "refresh", !.status = 401,
                                    !.detail = "Account is deactivated",
                                    !.presented = presented, !.user = user, !.at = now]
                       /\ UNCHANGED refresh_tokens
                  ELSE /\ rr' = [NoResponse EXCEPT !.op = "refresh", !.status = 200,
                                    !.access_token =
                                        create_access_token(user.id, user.email,
                                                            user.is_admin, user.full_name,
                                                            None, _private_key, now),
                                    !.presented = presented, !.user = user, !.at = now]
                       /\ refresh_tokens' =
                              SelectSeq(refresh_tokens,
                                        LAMBDA rec : rec.token_hash # token_hash)
    /\ redeemed' = IF rr'.status = 200
                   THEN [redeemed EXCEPT ![presented] = Counted(redeemed[presented] + 1)]
                   ELSE redeemed
    /\ UNCHANGED <<auth_users, clockVars, notRefresh>>

\* POST /refresh with the presented string.
refresh_token(presented) ==
    /\ LET token_hash == hash_refresh_token(presented)
           found == {i \in DOMAIN refresh_tokens :
                        /\ refresh_tokens[i].token_hash = token_hash
                        /\ refresh_tokens[i].expires_at > now}
       IN IF found = {}
          THEN rr' = [NoResponse EXCEPT !.op = "refresh", !.status = 401,
                         !.detail = "Invalid or expired refresh token",
                         !.presented = presented, !.at = now]
          ELSE LET refresh_token_db == refresh_tokens[CHOOSE i \in found :
                                                         \A j \in found : i <= j]
                   user == auth_users[refresh_token_db.user_id]
               IN IF ~user.is_active
                  THEN rr' = [NoResponse EXCEPT !.op = "refresh", !.status = 401,
                                 !.detail = "Account is deactivated",
                                 !.presented = presented, !.user = user, !.at = now]
                  ELSE rr' = [NoResponse EXCEPT !.op = "refresh", !.status = 200,
                                 !.access_token =
                                     create_access_token(user.id, user.email,
                                                         user.is_admin, user.full_name,
                                                         None, _private_key, now),
                                 !.presented = presented, !.user = user, !.at = now]
    /\ redeemed' = IF rr'.status = 200
                   THEN [redeemed EXCEPT ![presented] = Counted(redeemed[presented] + 1)]
                   ELSE redeemed
    /\ UNCHANGED <<auth_users, refresh_tokens, clockVars, notRefresh>>

\* An operator clears the user's is_active flag (the soft delete).
deactivate(id) ==
    /\ auth_users[id].is_active
    /\ auth_users' = [auth_users EXCEPT ![id].is_active = FALSE]
    /\ UNCHANGED <<refresh_tokens, rr, redeemed, clockVars, notRefresh>>

RefreshTickSteps == {1, timedelta_days(refresh_token_expire_days)}

RefreshNext ==
    \/ \E d \in RefreshTickSteps : tick(d)
    \/ \E username \in LoginEmails, password_ok \in BOOLEAN : login(username, password_ok)
    \/ \E presented \in RefreshStrings : refresh_token(presented)
    \/ \E id \in SubjectIds : deactivate(id)

(***************************************************************************)
(* auth-service/app/core/rate_limit.py : the limiter on the auth endpoints *)
(***************************************************************************)
LOGIN_LIMIT == 5
REGISTER_LIMIT == 3
REFRESH_LIMIT == 10

\* The window of an "N/minute" limit, in seconds.
RateWindowSeconds == 60

\* The endpoints decorated with @limiter.limit.
Operations == {"login", "register", "refresh"}

LimitOf(op) ==
    CASE op = "login" -> LOGIN_LIMIT
      [] op = "register" -> REGISTER_LIMIT
      [] op = "refresh" -> REFRESH_LIMIT

\* A header value or an address is the sequence of its characters.
Whitespace == {" "}

Reverse(s) == [i \in 1..Len(s) |-> s[Len(s) + 1 - i]]

\* s.split(",")[0]: the characters before the first comma.
RECURSIVE split_first(_)
split_first(s) ==
    IF s = <<>> \/ Head(s) = "," THEN <<>> ELSE <<Head(s)>> \o split_first(Tail(s))

RECURSIVE lstrip(_)
lstrip(s) == IF s # <<>> /\ Head(s) \in Whitespace THEN lstrip(Tail(s)) ELSE s

RECURSIVE rstrip(_)
rstrip(s) ==
    IF s # <<>> /\ s[Len(s)] \in Whitespace THEN rstrip(SubSeq(s, 1, Len(s) - 1)) ELSE s

\* s.strip()
strip(s) == rstrip(lstrip(s))

Unknown == <<"u", "n", "k", "n", "o", "w", "n">>

\* What the limiter reads of a request: the X-Forwarded-For header (None
\* when the request has none) and the transport peer, request.client.host
\* (empty when the server knows none).
RateRequests ==
    { [forwarded |-> Some(<<"a", ",", " ", "p">>), host |-> <<"p">>],
      [forwarded |-> None, host |-> <<"p">>] }

\* A get_real_client_ip that keys by the last hop of the header.
get_real_client_ip_last_hop(request) ==
    LET forwarded == request.forwarded
    IN IF forwarded # None /\ forwarded[1] # <<>>
       THEN strip(Reverse(split_first(Reverse(forwarded[1]))))
       ELSE IF request.host # <<>> THEN request.host ELSE Unknown

\* get_real_client_ip(request)
get_real_client_ip(request) ==
    LET forwarded == request.forwarded
    IN IF forwarded # None /\ forwarded[1] # <<>>
       THEN strip(split_first(forwarded[1]))
       ELSE IF request.host # <<>> THEN request.host ELSE Unknown

ClientAddresses == {get_real_client_ip(request) : request \in RateRequests}

\* The statuses the decorated handler itself ends with: success or the
\* authentication rejection.
HandlerStatuses == {200, 401}

NoCounter == [count |-> 0, expires_at |-> 0]

\* The last answer: the request's endpoint and client address and the status
\* it got; none before any request.
NoRateAnswer == [op |-> "none", address |-> <<>>, status |-> 0]

RateInit ==
    /\ rate_counters = [k \in Operations \X ClientAddresses |->
                           NoCounter]
    /\ rl = NoRateAnswer

notRate == <<reconVars, keyVars, valVars, refreshVars, otherVars>>

\* Time passes by d seconds; the storage's expiry timer drops the counters
\* whose window has run out.
rate_tick(d) ==
    /\ ticks < MaxTicks
    /\ now' = now + d
    /\ ticks' = ticks + 1
    /\ rate_counters' = [k \in DOMAIN rate_counters |->
                            IF rate_counters[k].expires_at <= now + d
                            THEN NoCounter ELSE rate_counters[k]]
    /\ UNCHANGED <<rl, notRate>>

\* The storage's incr for key k at the current time: a counter whose window
\* has run out starts again at 1 with a new window, else it goes up by one.
incr(k) ==
    IF rate_counters[k].expires_at <= now
    THEN [count |-> 1, expires_at |-> now + RateWindowSeconds]
    ELSE [rate_counters[k] EXCEPT !.count = @ + 1]

\* A limiter that counts only the requests its handler answered with success.
limited_request_counts_successes(op, request, handler_status) ==
    LET k == <<op, get_real_client_ip(request)>>
        counter == incr(k)
    IN /\ counter.count <= LimitOf(op) + MaxOverLimit
       /\ rate_counters' = IF counter.count <= LimitOf(op) /\ handler_status # 200
                           THEN rate_counters
                           ELSE [rate_counters EXCEPT ![k] = counter]
       /\ rl' = [op |-> op, address |-> get_real_client_ip(request),
                 status |-> IF counter.count <= LimitOf(op) THEN handler_status ELSE 429]
       /\ UNCHANGED <<clockVars, notRate>>

\* A limiter keyed by the client address alone.
limited_request_keyed_by_address(op, request, handler_status) ==
    LET k == <<"login", get_real_client_ip(request)>>
        counter == incr(k)
    IN /\ counter.count <= LimitOf(op) + MaxOverLimit
       /\ rate_counters' = [rate_counters EXCEPT ![k] = counter]
       /\ rl' = [op |-> op, address |-> get_real_client_ip(request),
                 status |-> IF counter.count <= LimitOf(op) THEN handler_status ELSE 429]
       /\ UNCHANGED <<clockVars, notRate>>

\* A request to an endpoint under @limiter.limit: the limiter counts the hit
\* for (endpoint, address) before the handler runs and raises
\* RateLimitExceeded (429) past the limit; else the handler answers.
limited_request(op, request, handler_status) ==
    LET k == <<op, get_real_client_ip(request)>>
        counter == incr(k)
    IN /\ counter.count <= LimitOf(op) + MaxOverLimit
       /\ rate_counters' = [rate_counters EXCEPT ![k] = counter]
       /\ rl' = [op |-> op, address |-> get_real_client_ip(request),
                 status |-> IF counter.count <= LimitOf(op) THEN handler_status ELSE 429]
       /\ UNCHANGED <<clockVars, notRate>>

\* The clock advances by half a window: two requests half a window apart
\* share a window, two requests a whole window apart do not.
RateTickSteps == {RateWindowSeconds \div 2}

\* The (operation, request) pairs clients send: every operation from the
\* proxied client, and logins from the peer without a forwarded-for header.
RateInputs ==
    {<<op, request>> \in Operations \X RateRequests :
        request.forwarded # None \/ op = "login"}

RateNext ==
    \/ \E d \in RateTickSteps : rate_tick(d)
    \/ \E input \in RateInputs, handler_status \in HandlerStatuses :
           limited_request(input[1], input[2], handler_status)

(***************************************************************************)
(* auth-service/app/core/rate_limit.py : get_real_client_ip on its own     *)
(***************************************************************************)
\* Characters of the header values tried.
MaxHeaderLen == 3

HeaderChars == {"a", "b", ",", " "}

HeaderValues == UNION {[1..n -> HeaderChars] : n \in 0..MaxHeaderLen}

KeyRequests ==
    [forwarded : {None} \cup {Some(h) : h \in HeaderValues}, host : {<<"p">>, <<>>}]

RateKeyInit == keyed = <<>>

notRateKey == <<reconVars, keyVars, clockVars, valVars, refreshVars, rateVars, endpointVars,
                rotated_at, shopVars, registerVars, laterVars>>

\* The limiter asks get_real_client_ip for the key of a request; two
\* requests are followed.
key_request(request) ==
    /\ Len(keyed) < 2
    /\ keyed' = Append(keyed, [request |-> request, key |-> get_real_client_ip(request)])
    /\ UNCHANGED notRateKey

RateKeyNext == \E request \in KeyRequests : key_request(request)

(***************************************************************************)
(* auth-service/app/api/routes : what the endpoints send, by key thread    *)
(***************************************************************************)
Endpoints == {"public-key", "login", "refresh", "validate"}

\* The user the token endpoints answer for.
EndpointUser == [user_id |-> 7, email |-> "a@x.com", full_name |-> None, is_admin |-> FALSE]

Garbage == [kind |-> "garbage", alg |-> "", sig |-> None, claims |-> <<>>]

\* The tokens a client posts to /internal/validate: garbage, and access
\* tokens signed by the configured pair or by a generated one.
ValidateTokens ==
    {Garbage} \cup
    {create_access_token(EndpointUser.user_id, EndpointUser.email, EndpointUser.is_admin,
                         EndpointUser.full_name, None, PrivatePem(k), StartTime) :
        k \in 0..NumThreads}

NoBody == [op |-> "none", body |-> <<>>]

EndpointInit == sent = NoBody

notEndpoints == <<reconVars, clockVars, valVars, refreshVars, rateVars, rateKeyVars,
                  rotated_at, shopVars, registerVars, laterVars>>

\* The steps of _get_keys inside the request that worker thread t serves.
endpoint_get_keys(t) ==
    \/ get_keys_enter(t)
    \/ get_keys_check_private(t)
    \/ get_keys_check_public(t)
    \/ get_keys_generate(t)
    \/ get_keys_store_private(t)
    \/ get_keys_store_public(t)
    \/ get_keys_load_private(t)

\* decode_token / validate_token of jwt.py with the public key of pair.
validate_token(token, public_key, t) ==
    jwt_decode(token, public_key, {"RS256"},
               [verify_signature |-> TRUE, require |-> {"exp", "iat"}], None, t)

\* A public-key endpoint that hands out the other half of the pair.
endpoint_body_private_half(op, pair, token) ==
    [public_key |-> pair.private, algorithm |-> "RS256"]

\* The body the endpoint builds from the pair _get_keys returned.
endpoint_body(op, pair, token) ==
    CASE op = "public-key" ->
           [public_key |-> pair.public, algorithm |-> "RS256"]
      [] op \in {"login", "refresh"} ->
           [access_token |-> create_access_token(EndpointUser.user_id, EndpointUser.email,
                                                 EndpointUser.is_admin,
                                                 EndpointUser.full_name, None,
                                                 pair.private, now),
            refresh_token |-> IF op = "login" THEN Some(create_refresh_token(1)) ELSE None,
            token_type |-> "bearer",
            expires_in |-> access_token_expire_minutes * 60]
      [] op = "validate" ->
           LET decoded == validate_token(token, pair.public, now)
           IN IF decoded.ok
              THEN [valid |-> TRUE, user_id |-> int(decoded.claims.sub),
                    email |-> decoded.claims.email, is_admin |-> decoded.claims.admin]
              ELSE [valid |-> FALSE, error |-> decoded.error]

\* _get_keys returns (line 48 for a configured pair, line 55 otherwise) to
\* endpoint op, which sends its response; token is what a validate request
\* carried.
endpoint_return(t, op, token) ==
    LET configured == auth_settings.jwt_private_key # None
                      /\ auth_settings.jwt_public_key # None
        pair == IF configured
                THEN [private |-> auth_settings.jwt_private_key,
                      public |-> auth_settings.jwt_public_key]
                ELSE [private |-> kt[t].private, public |-> _public_key]
    IN /\ IF configured THEN kt[t].pc = "idle" ELSE kt[t].pc = "load_public"
       /\ sent' = [op |-> op, body |-> endpoint_body(op, pair, token)]
       /\ kt' = [kt EXCEPT ![t] = KeyThreadIdle]
       /\ UNCHANGED <<auth_settings, _private_key, _public_key, generated, observed,
                      notEndpoints>>

\* The requests served: only a validate request carries a token.
EndpointInputs ==
    {<<op, token>> \in Endpoints \X ValidateTokens : op = "validate" \/ token = Garbage}

EndpointsNext ==
    \/ \E t \in KeyThreads : endpoint_get_keys(t)
    \/ \E t \in KeyThreads, input \in EndpointInputs :
           endpoint_return(t, input[1], input[2])

(***************************************************************************)
(* backend/app/api/routes/cart.py and orders.py : cart and orders          *)
(***************************************************************************)
\* Orders created over a run.
MaxOrders == 2

\* The largest quantity one cart item is followed up to.
MaxCartQuantity == 2

\* Rows the cart_items table is followed up to.
MaxCartRows == 2

\* Stock of each product when the model starts.
InitialStock == 2

\* current_user.id of the callers, and the ids of the products on sale.
ShopUsers == {1, 2}

ProductIds == {1, 2}

\* item_data.quantity of an add_to_cart request.
Quantities == {1, 2}

\* Product.price: the two products cost differently.
PriceOf(product_id) == IF product_id = 1 THEN 3 ELSE 5

NoShopAnswer == [op |-> "none", status |-> 0, detail |-> ""]

ShopInit ==
    /\ products = [id \in ProductIds |->
                      [id |-> id, price |-> PriceOf(id), stock |-> InitialStock,
                       is_active |-> TRUE]]
    /\ cart_items = <<>>
    /\ orders = <<>>
    /\ shop = NoShopAnswer

notShop == <<reconVars, keyVars, clockVars, valVars, refreshVars, rateVars, rateKeyVars,
             endpointVars, rotated_at, registerVars, laterVars>>

\* db.query(CartItem).filter(CartItem.user_id == user).all()
cart_of(user) == SelectSeq(cart_items, LAMBDA row : row.user_id = user)

\* The positions of the cart rows of user for product_id.
cart_rows(user, product_id) ==
    {i \in DOMAIN cart_items :
        cart_items[i].user_id = user /\ cart_items[i].product_id = product_id}

ShopAnswer(op, status, detail) ==
    [op |-> op, status |-> status, detail |-> detail]

\* An add_to_cart that always inserts a new row.
add_to_cart_always_inserts(user, product_id, quantity) ==
    /\ \A i \in cart_rows(user, product_id) :
          cart_items[i].quantity + quantity <= MaxCartQuantity
    /\ Len(cart_items) < MaxCartRows
    /\ IF ~products[product_id].is_active
       THEN /\ shop' = ShopAnswer("add_to_cart", 404, "Product not found")
            /\ UNCHANGED cart_items
       ELSE IF products[product_id].stock < quantity
       THEN /\ shop' = ShopAnswer("add_to_cart", 400, "Insufficient stock")
            /\ UNCHANGED cart_items
       ELSE /\ cart_items' = Append(cart_items, [user_id |-> user, product_id |-> product_id,
                                                   quantity |-> quantity])
            /\ shop' = ShopAnswer("add_to_cart", 201, "")
    /\ UNCHANGED <<products, orders, notShop>>

\* add_to_cart, cart.py lines 43-104.
add_to_cart(user, product_id, quantity) ==
    /\ \A i \in cart_rows(user, product_id) :
          cart_items[i].quantity + quantity <= MaxCartQuantity
    /\ cart_rows(user, product_id) = {} => Len(cart_items) < MaxCartRows
    /\ IF ~products[product_id].is_active
       THEN /\ shop' = ShopAnswer("add_to_cart", 404, "Product not found")
            /\ UNCHANGED cart_items
       ELSE IF products[product_id].stock < quantity
       THEN /\ shop' = ShopAnswer("add_to_cart", 400, "Insufficient stock")
            /\ UNCHANGED cart_items
       ELSE IF cart_rows(user, product_id) # {}
       THEN LET existing == CHOOSE i \in cart_rows(user, product_id) :
                                \A j \in cart_rows(user, product_id) : i <= j
            IN /\ cart_items' = [cart_items EXCEPT ![existing].quantity = @ + quantity]
               /\ shop' = ShopAnswer("add_to_cart", 201, "")
       ELSE /\ cart_items' = Append(cart_items, [user_id |-> user, product_id |-> product_id,
                                                   quantity |-> quantity])
            /\ shop' = ShopAnswer("add_to_cart", 201, "")
    /\ UNCHANGED <<products, orders, notShop>>

\* create_order's loop over the cart (lines 106-131): each item is checked
\* against the stock the items before it have left, priced, and taken from
\* the stock. acc carries the products, the total and the order items so far.
RECURSIVE take_items(_, _)
take_items(cart, acc) ==
    IF cart = <<>> \/ acc.error # "" THEN acc
    ELSE LET item == Head(cart)
             product == acc.products[item.product_id]
         IN IF ~product.is_active
            THEN [acc EXCEPT !.error = "Product is not available"]
            ELSE IF product.stock < item.quantity
            THEN [acc EXCEPT !.error = "Insufficient stock"]
            ELSE take_items(Tail(cart),
                     [products |-> [acc.products EXCEPT ![item.product_id].stock =
                                                            @ - item.quantity],
                      total_amount |-> acc.total_amount + product.price * item.quantity,
                      items |-> Append(acc.items,
                                       [product_id |-> product.id,
                                        quantity |-> item.quantity,
                                        unit_price |-> product.price]),
                      error |-> ""])

\* A create_order that leaves the stock as it is.
create_order_keeps_stock(user) ==
    /\ Len(orders) < MaxOrders
    /\ LET cart == cart_of(user)
           taken == take_items(cart, [products |-> products, total_amount |-> 0,
                                      items |-> <<>>, error |-> ""])
       IN IF cart = <<>>
          THEN /\ shop' = ShopAnswer("create_order", 400, "Cart is empty")
               /\ UNCHANGED <<products, cart_items, orders>>
          ELSE IF taken.error # ""
          THEN /\ shop' = ShopAnswer("create_order", 400, taken.error)
               /\ UNCHANGED <<products, cart_items, orders>>
          ELSE LET order == [id |-> Len(orders) + 1, user_id |-> user,
                             status |-> "pending", total_amount |-> taken.total_amount,
                             items |-> taken.items]
               IN /\ orders' = Append(orders, order)
                  /\ UNCHANGED products
                  /\ cart_items' = SelectSeq(cart_items, LAMBDA row : row.user_id # user)
                  /\ shop' = ShopAnswer("create_order", 201, "")
    /\ UNCHANGED notShop

\* A create_order that stores what its loop did before it failed.
create_order_commits_partial(user) ==
    /\ Len(orders) < MaxOrders
    /\ LET cart == cart_of(user)
           taken == take_items(cart, [products |-> products, total_amount |-> 0,
                                      items |-> <<>>, error |-> ""])
       IN IF cart = <<>>
          THEN /\ shop' = ShopAnswer("create_order", 400, "Cart is empty")
               /\ UNCHANGED <<products, cart_items, orders>>
          ELSE IF taken.error # ""
          THEN /\ shop' = ShopAnswer("create_order", 400, taken.error)
               /\ products' = taken.products
               /\ UNCHANGED <<cart_items, orders>>
          ELSE LET order == [id |-> Len(orders) + 1, user_id |-> user,
                             status |-> "pending", total_amount |-> taken.total_amount,
                             items |-> taken.items]
               IN /\ orders' = Append(orders, order)
                  /\ products' = taken.products
                  /\ cart_items' = SelectSeq(cart_items, LAMBDA row : row.user_id # user)
                  /\ shop' = ShopAnswer("create_order", 201, "")
    /\ UNCHANGED notShop

\* create_order, orders.py lines 86-178. An HTTPException leaves the session
\* uncommitted, so nothing of the loop is stored.
create_order(user) ==
    /\ Len(orders) < MaxOrders
    /\ LET cart == cart_of(user)
           taken == take_items(cart, [products |-> products, total_amount |-> 0,
                                      items |-> <<>>, error |-> ""])
       IN IF cart = <<>>
          THEN /\ shop' = ShopAnswer("create_order", 400, "Cart is empty")
               /\ UNCHANGED <<products, cart_items, orders>>
          ELSE IF taken.error # ""
          THEN /\ shop' = ShopAnswer("create_order", 400, taken.error)
               /\ UNCHANGED <<products, cart_items, orders>>
          ELSE LET order == [id |-> Len(orders) + 1, user_id |-> user,
                             status |-> "pending", total_amount |-> taken.total_amount,
                             items |-> taken.items]
               IN /\ orders' = Append(orders, order)
                  /\ products' = taken.products
                  /\ cart_items' = SelectSeq(cart_items, LAMBDA row : row.user_id # user)
                  /\ shop' = ShopAnswer("create_order", 201, "")
    /\ UNCHANGED notShop

\* cancel_order's loop over order.items (lines 206-209).
RECURSIVE restore_stock(_, _)
restore_stock(items, stocked) ==
    IF items = <<>> THEN stocked
    ELSE restore_stock(Tail(items),
             IF Head(items).product_id \in DOMAIN stocked
             THEN [stocked EXCEPT ![Head(items).product_id].stock = @ + Head(items).quantity]
             ELSE stocked)

\* A cancel_order that does not look at the status.
cancel_order_any_status(user, order_id) ==
    /\ IF order_id \notin DOMAIN orders \/ orders[order_id].user_id # user
       THEN /\ shop' = ShopAnswer("cancel_order", 404, "Order not found")
            /\ UNCHANGED <<products, orders>>
       ELSE /\ products' = restore_stock(orders[order_id].items, products)
            /\ orders' = [orders EXCEPT ![order_id].status = "cancelled"]
            /\ shop' = ShopAnswer("cancel_order", 200, "")
    /\ UNCHANGED <<cart_items, notShop>>

\* cancel_order, orders.py lines 181-232.
cancel_order(user, order_id) ==
    /\ IF order_id \notin DOMAIN orders \/ orders[order_id].user_id # user
       THEN /\ shop' = ShopAnswer("cancel_order", 404, "Order not found")
            /\ UNCHANGED <<products, orders>>
       ELSE IF orders[order_id].status # "pending"
       THEN /\ shop' = ShopAnswer("cancel_order", 400,
                                  "Only pending orders can be cancelled")
            /\ UNCHANGED <<products, orders>>
       ELSE /\ products' = restore_stock(orders[order_id].items, products)
            /\ orders' = [orders EXCEPT ![order_id].status = "cancelled"]
            /\ shop' = ShopAnswer("cancel_order", 200, "")
    /\ UNCHANGED <<cart_items, notShop>>

\* Fulfilment marks a pending order shipped (no route of the backend does;
\* the tests write the status to the table).
ship_order(order_id) ==
    /\ order_id \in DOMAIN orders
    /\ orders[order_id].status = "pending"
    /\ orders' = [orders EXCEPT ![order_id].status = "shipped"]
    /\ UNCHANGED <<products, cart_items, shop, notShop>>

OrderIds == 1..MaxOrders

\* item_id of a cart request: the id of the row at this place of the table,
\* or an id no row has.
ItemIds == 1..MaxCartRows

\* db.query(CartItem).filter(CartItem.id == item_id,
\*                          CartItem.user_id == current_user.id).first() finds a row.
owns_item(user, item_id) ==
    item_id \in DOMAIN cart_items /\ cart_items[item_id].user_id = user

\* The table without the rows at the places in gone.
without_rows(gone) ==
    LET kept == {i \in DOMAIN cart_items : i \notin gone}
        RECURSIVE in_order(_)
        in_order(i) ==
            IF i > Len(cart_items) THEN <<>>
            ELSE IF i \in kept THEN <<cart_items[i]>> \o in_order(i + 1)
            ELSE in_order(i + 1)
    IN in_order(1)

\* update_cart_item, cart.py lines 107-145.
update_cart_item(user, item_id, quantity) ==
    /\ IF ~owns_item(user, item_id)
       THEN /\ shop' = ShopAnswer("update_cart_item", 404, "Cart item not found")
            /\ UNCHANGED cart_items
       ELSE IF quantity > products[cart_items[item_id].product_id].stock
       THEN /\ shop' = ShopAnswer("update_cart_item", 400, "Insufficient stock")
            /\ UNCHANGED cart_items
       ELSE /\ cart_items' = [cart_items EXCEPT ![item_id].quantity = quantity]
            /\ shop' = ShopAnswer("update_cart_item", 200, "")
    /\ UNCHANGED <<products, orders, notShop>>

\* A remove_from_cart that looks the row up by its id alone.
remove_from_cart_any_owner(user, item_id) ==
    /\ IF item_id \notin DOMAIN cart_items
       THEN /\ shop' = ShopAnswer("remove_from_cart", 404, "Cart item not found")
            /\ UNCHANGED cart_items
       ELSE /\ cart_items' = without_rows({item_id})
            /\ shop' = ShopAnswer("remove_from_cart", 204, "")
    /\ UNCHANGED <<products, orders, notShop>>

\* remove_from_cart, cart.py lines 148-167.
remove_from_cart(user, item_id) ==
    /\ IF ~owns_item(user, item_id)
       THEN /\ shop' = ShopAnswer("remove_from_cart", 404, "Cart item not found")
            /\ UNCHANGED cart_items
       ELSE /\ cart_items' = without_rows({item_id})
            /\ shop' = ShopAnswer("remove_from_cart", 204, "")
    /\ UNCHANGED <<products, orders, notShop>>

\* clear_cart, cart.py lines 170-177.
clear_cart(user) ==
    /\ cart_items' = without_rows({i \in DOMAIN cart_items : cart_items[i].user_id = user})
    /\ shop' = ShopAnswer("clear_cart", 204, "")
    /\ UNCHANGED <<products, orders, notShop>>

\* get_order, orders.py lines 47-83: the caller's order with this id, or 404.
get_order(user, order_id) ==
    /\ shop' = IF order_id \in DOMAIN orders /\ orders[order_id].user_id = user
               THEN ShopAnswer("get_order", 200, "")
               ELSE ShopAnswer("get_order", 404, "Order not found")
    /\ UNCHANGED <<products, cart_items, orders, notShop>>

\* update_product, products.py lines 77-104: an admin takes a product off
\* sale or puts it back.
update_product(product_id, is_active) ==
    /\ products[product_id].is_active # is_active
    /\ products' = [products EXCEPT ![product_id].is_active = is_active]
    /\ UNCHANGED <<cart_items, orders, shop, notShop>>

\* Orders the runs of the cart requests are followed up to.
MaxCartOrders == 1

\* create_order while the run has orders left.
cart_create_order(user) == Len(orders) < MaxCartOrders /\ create_order(user)

\* The cart and order requests of the two users, one after another.
CartNext ==
    \/ \E user \in ShopUsers, product_id \in ProductIds, quantity \in Quantities :
           add_to_cart(user, product_id, quantity)
    \/ \E user \in ShopUsers, item_id \in ItemIds, quantity \in Quantities :
           update_cart_item(user, item_id, quantity)
    \/ \E user \in ShopUsers, item_id \in ItemIds : remove_from_cart(user, item_id)
    \/ \E user \in ShopUsers : clear_cart(user)
    \/ \E user \in ShopUsers : cart_create_order(user)
    \/ \E user \in ShopUsers, order_id \in OrderIds : get_order(user, order_id)
    \/ \E user \in ShopUsers, order_id \in OrderIds : cancel_order(user, order_id)

\* quantity as a request body can carry it: CartItemBase and CartItemUpdate
\* declare a plain int.
RequestQuantities == {-1, 0, 1}

\* add_to_cart while the row stays within the quantities that are followed.
quantity_add_to_cart(user, product_id, quantity) ==
    /\ \A i \in cart_rows(user, product_id) :
          cart_items[i].quantity + quantity >= -1
    /\ add_to_cart(user, product_id, quantity)

\* Cart requests with any integer quantity, and the orders made of the carts.
QuantityNext ==
    \/ \E user \in ShopUsers, product_id \in ProductIds, quantity \in RequestQuantities :
           quantity_add_to_cart(user, product_id, quantity)
    \/ \E user \in ShopUsers, item_id \in ItemIds, quantity \in RequestQuantities :
           update_cart_item(user, item_id, quantity)
    \/ \E user \in ShopUsers : cart_create_order(user)

\* Orders placed while an admin takes products off sale and puts them back.
OrderFailNext ==
    \/ \E user \in ShopUsers, product_id \in ProductIds, quantity \in Quantities :
           add_to_cart(user, product_id, quantity)
    \/ \E user \in ShopUsers : create_order(user)
    \/ \E product_id \in ProductIds, is_active \in BOOLEAN :
           update_product(product_id, is_active)

ShopNext ==
    \/ \E user \in ShopUsers, product_id \in ProductIds, quantity \in Quantities :
           add_to_cart(user, product_id, quantity)
    \/ \E user \in ShopUsers : create_order(user)
    \/ \E user \in ShopUsers, order_id \in OrderIds : cancel_order(user, order_id)
    \/ \E order_id \in OrderIds : ship_order(order_id)

(***************************************************************************)
(* auth-service/app/api/routes/auth.py : register                          *)
(***************************************************************************)
\* Worker threads of the issuer that serve register requests together.
NumRegisterThreads == 2

RegisterThreads == 1..NumRegisterThreads

\* user_data.email of the requests.
RegisterEmails == {"a@example.com", "b@example.com"}

RegisterIdle == [pc |-> "idle", email |-> "", status |-> 0]

RegisterInit ==
    /\ accounts = <<>>
    /\ reg = [t \in RegisterThreads |-> RegisterIdle]

notRegister == <<reconVars, keyVars, clockVars, valVars, refreshVars, rateVars, rateKeyVars,
                 endpointVars, rotated_at, shopVars, laterVars>>

\* db.query(User).filter(User.email == email).first() finds a row.
email_registered(email) == \E i \in DOMAIN accounts : accounts[i].email = email

\* register, lines 64-69: the lookup of the email, and the 409 when it finds
\* a row.
register_check(t, email) ==
    /\ reg[t].pc = "idle"
    /\ reg' = [reg EXCEPT ![t] =
                  IF email_registered(email)
                  THEN [pc |-> "idle", email |-> email, status |-> 409]
                  ELSE [pc |-> "inserting", email |-> email, status |-> 0]]
    /\ UNCHANGED <<accounts, notRegister>>

\* register, lines 72-81: db.add and db.commit. users.email is unique: the
\* INSERT of an email another request stored since the lookup raises
\* IntegrityError, which register does not catch, and the request ends 500.
register_commit(t) ==
    /\ reg[t].pc = "inserting"
    /\ IF email_registered(reg[t].email)
       THEN /\ reg' = [reg EXCEPT ![t] = [pc |-> "idle", email |-> reg[t].email,
                                          status |-> 500]]
            /\ UNCHANGED accounts
       ELSE /\ accounts' = Append(accounts, [id |-> Len(accounts) + 1,
                                             email |-> reg[t].email])
            /\ reg' = [reg EXCEPT ![t] = [pc |-> "idle", email |-> reg[t].email,
                                          status |-> 201]]
    /\ UNCHANGED notRegister

RegisterNext ==
    \/ \E t \in RegisterThreads, email \in RegisterEmails : register_check(t, email)
    \/ \E t \in RegisterThreads : register_commit(t)

(***************************************************************************)
(* backend/app/api/routes/orders.py : create_order served by several       *)
(* workers on one database                                                 *)
(***************************************************************************)
\* Backend workers that serve create_order requests together.
NumOrderThreads == 2

OrderThreads == 1..NumOrderThreads

OrderThreadIdle == [pc |-> "idle", user |-> 0, taken |-> <<>>]

OrderRaceInit == ot = [t \in OrderThreads |-> OrderThreadIdle]

notOrderRace == <<reconVars, keyVars, clockVars, valVars, refreshVars, rateVars, rateKeyVars,
                  endpointVars, rotated_at, registerVars, au, both>>

\* create_order, lines 94-131: the worker reads the caller's cart and, in
\* its loop, each product row, checks it, and takes the quantity from the
\* stock of the object its own session holds. Nothing is written yet.
order_read(t, user) ==
    /\ ot[t].pc = "idle"
    /\ Len(orders) < MaxOrders
    /\ LET cart == cart_of(user)
           taken == take_items(cart, [products |-> products, total_amount |-> 0,
                                      items |-> <<>>, error |-> ""])
       IN IF cart = <<>>
          THEN /\ shop' = ShopAnswer("create_order", 400, "Cart is empty")
               /\ UNCHANGED ot
          ELSE IF taken.error # ""
          THEN /\ shop' = ShopAnswer("create_order", 400, taken.error)
               /\ UNCHANGED ot
          ELSE /\ ot' = [ot EXCEPT ![t] = [pc |-> "flush", user |-> user,
                                           taken |-> <<taken>>]]
               /\ UNCHANGED shop
    /\ UNCHANGED <<products, cart_items, orders, notOrderRace>>

\* create_order, lines 134-164: flush and commit. The products the loop
\* changed are written with the stock the session computed (UPDATE products
\* SET stock = <value>), the order and its items are inserted, and the
\* caller's cart rows are deleted.
order_write(t) ==
    /\ ot[t].pc = "flush"
    /\ Len(orders) < MaxOrders
    /\ LET taken == ot[t].taken[1]
           order == [id |-> Len(orders) + 1, user_id |-> ot[t].user,
                     status |-> "pending", total_amount |-> taken.total_amount,
                     items |-> taken.items]
           ordered(id) == {i \in DOMAIN taken.items : taken.items[i].product_id = id}
       IN /\ orders' = Append(orders, order)
          /\ products' = [id \in DOMAIN products |->
                             IF ordered(id) # {}
                             THEN [products[id] EXCEPT !.stock = taken.products[id].stock]
                             ELSE products[id]]
          /\ cart_items' = SelectSeq(cart_items, LAMBDA row : row.user_id # ot[t].user)
          /\ shop' = ShopAnswer("create_order", 201, "")
    /\ ot' = [ot EXCEPT ![t] = OrderThreadIdle]
    /\ UNCHANGED notOrderRace

\* Carts are filled and orders cancelled by requests of their own, while
\* the workers serve create_order requests statement group by statement
\* group; worker t serves the requests of user t.
OrderRaceNext ==
    \/ \E user \in ShopUsers, product_id \in ProductIds, quantity \in Quantities :
           add_to_cart(user, product_id, quantity)
    \/ \E t \in OrderThreads : order_read(t, t)
    \/ \E t \in OrderThreads : order_write(t)
    \/ \E user \in ShopUsers, order_id \in OrderIds : cancel_order(user, order_id)

(***************************************************************************)
(* backend/app/core/deps.py : get_current_active_user                      *)
(***************************************************************************)
\* au[r].early records that the record of the request's email was
\* deactivated when request r had already been received.
ActiveIdle == [early |-> FALSE, status |-> 0, detail |-> ""]

ActiveInit == au = [r \in Requests |-> ActiveIdle]

notActive == <<keyVars, clockVars, valVars, refreshVars, rateVars, rateKeyVars,
               endpointVars, rotated_at, shopVars, registerVars, ot, both>>

\* An operator clears the is_active flag of a local record.
deactivate_local(i) ==
    /\ i \in DOMAIN users
    /\ users[i].is_active
    /\ users' = [users EXCEPT ![i].is_active = FALSE]
    /\ au' = [r \in Requests |->
                 IF req[r].pc # "idle" /\ req[r].ctx.email = users[i].email
                 THEN [au[r] EXCEPT !.early = TRUE]
                 ELSE au[r]]
    /\ UNCHANGED <<req, notActive>>

\* get_current_active_user, lines 162-168: called with the user object that
\* get_current_user returned.
get_current_active_user(r) ==
    /\ req[r].pc = "done"
    /\ req[r].result.status = 200
    /\ au[r].status = 0
    /\ LET current_user == req[r].result.user
       IN au' = [au EXCEPT ![r] =
                    IF ~current_user.is_active
                    THEN [@ EXCEPT !.status = 400, !.detail = "Inactive user"]
                    ELSE [@ EXCEPT !.status = 200]]
    /\ UNCHANGED <<reconVars, notActive>>

\* Requests that pass through get_current_user and get_current_active_user
\* while local records are being deactivated.
ActiveNext ==
    \/ \E r \in Requests, ctx \in UserContext : get_current_user(r, ctx)
    \/ \E r \in Requests : find_or_create_lookup(r)
    \/ \E r \in Requests : find_or_create_commit(r)
    \/ \E r \in Requests : find_or_create_refresh(r)
    \/ \E r \in Requests : find_or_create_conflict(r)
    \/ \E r \in Requests : sync_user_claims(r)
    \/ \E r \in Requests : sync_refresh(r)
    \/ \E i \in 1..Cardinality(Emails) : deactivate_local(i)
    \/ \E r \in Requests : get_current_active_user(r)

(***************************************************************************)
(* The issuer's validate_token and the backend's decode_token, side by side *)
(***************************************************************************)
CompareVariants == PayloadVariants \cup {"no-iat"}

\* The payload of a token made at StartTime, well formed or with one defect.
ComparePayload(variant) ==
    IF variant = "no-iat" THEN Without(WellFormedPayload(StartTime), "iat")
    ELSE PresentedPayload(variant, StartTime)

\* What is handed in: a payload signed RS256 with the issuer's own private
\* key or with somebody else's (pair 0), the well-formed payload as an HS256
\* token keyed with the public key, or a string that is no JWT.
CompareSigners == {"own", "foreign", "HS256", "garbage"}

CompareToken(variant, signer) ==
    CASE signer = "own" -> jwt_encode(ComparePayload(variant), _private_key, "RS256")
      [] signer = "foreign" -> jwt_encode(ComparePayload(variant), PrivatePem(0), "RS256")
      [] signer = "HS256" -> jwt_encode(WellFormedPayload(StartTime), _public_key, "HS256")
      [] signer = "garbage" -> Garbage

NoCompare == [token |-> Garbage, at |-> 0, issuer |-> JwtError(""), consumer |-> None]

CompareInit == both = NoCompare

notCompare == <<reconVars, keyVars, clockVars, valVars, refreshVars, rateVars, rateKeyVars,
                endpointVars, rotated_at, shopVars, registerVars, ot, au>>

\* decode_token of security.py with the published key in hand: the payload
\* of jwt.decode, None when it raises.
backend_decode_token(token, public_key, t) ==
    LET decoded == backend_jwt_decode(token, public_key, t)
    IN IF decoded.ok THEN Some(decoded.claims) ELSE None

\* One token is given, at the same moment and with the same key pair, to
\* validate_token of the auth service and to decode_token of the backend.
validate_both(variant, signer) ==
    /\ LET token == CompareToken(variant, signer)
       IN both' = [token |-> token, at |-> now,
                   issuer |-> validate_token(token, _public_key, now),
                   consumer |-> backend_decode_token(token, _public_key, now)]
    /\ UNCHANGED notCompare

\* Far enough to pass the expiry of a token made at StartTime.
CompareTickSteps == {1, 60}

CompareNext ==
    \/ \E d \in CompareTickSteps : tick(d)
    \/ \E variant \in CompareVariants, signer \in CompareSigners :
           validate_both(variant, signer)

OtherInit ==
    /\ RateKeyInit /\ EndpointInit /\ rotated_at = 0 /\ ShopInit /\ RegisterInit
    /\ OrderRaceInit /\ ActiveInit /\ CompareInit

(***************************************************************************)
(* Claims about reconciliation                                             *)
(***************************************************************************)
\* The stored fields a caller compares on a returned record.
StoredFields(u) ==
    [email |-> u.email, auth_service_id |-> u.auth_service_id,
     full_name |-> u.full_name, is_admin |-> u.is_admin, is_active |-> u.is_active]

RowsOf(email) == {i \in DOMAIN users : users[i].email = email}

\* The requests that have entered get_current_user with claims for email.
CallsFor(email) == {r \in Requests : req[r].pc # "idle" /\ req[r].ctx.email = email}

\* C1: when every reconcile call for an email that had no local record
\* carries the same claims, then under any interleaving the store never
\* holds more than one record for that email, it holds exactly one once a
\* call has returned, and every call returns a record (never an error)
\* whose stored fields equal those of that one row.
C1_OneRecordSameFields ==
    \A e \in Emails :
        (\A r1, r2 \in CallsFor(e) : req[r1].ctx = req[r2].ctx) =>
            /\ Cardinality(RowsOf(e)) <= 1
            /\ \A r \in CallsFor(e) :
                   req[r].pc = "done" =>
                      /\ req[r].result.status = 200
                      /\ Cardinality(RowsOf(e)) = 1
                      /\ \A i \in RowsOf(e) :
                            StoredFields(req[r].result.user) = StoredFields(users[i])

\* Two calls with identical claims for a new email have both returned, and
\* one of them lost the insert race.
C1_Witness ==
    \E r1, r2 \in Requests :
        /\ r1 # r2
        /\ req[r1].pc = "done" /\ req[r2].pc = "done"
        /\ req[r1].ctx = req[r2].ctx
        /\ req[r2].raced /\ ~req[r1].raced

\* C13: when the insert of _find_or_create_user fails with a uniqueness
\* conflict, the failed write leaves no row behind and the record is read
\* again by email; a record that is found is returned as a normal result,
\* and a call ends in an error (500) only if it met a conflict and the
\* record was absent at the re-read.
C13_ConflictRecovered ==
    \A r \in Requests :
        /\ (req[r].pc # "idle" /\ req[r].raced) =>
               Cardinality(RowsOf(req[r].ctx.email)) <= 1
        /\ req[r].pc = "done" =>
               /\ (req[r].raced /\ RowsOf(req[r].ctx.email) # {}) =>
                      /\ req[r].result.status = 200
                      /\ req[r].result.user.email = req[r].ctx.email
                      /\ \E i \in RowsOf(req[r].ctx.email) :
                             req[r].result.user.id = users[i].id
               /\ req[r].result.status # 200 =>
                      /\ req[r].result.status = 500
                      /\ req[r].raced
                      /\ RowsOf(req[r].ctx.email) = {}

\* A call whose insert met a conflict has returned the row that another
\* call, carrying other claims for the same email, had inserted first.
C13_Witness ==
    \E r1, r2 \in Requests :
        /\ r1 # r2
        /\ req[r1].pc = "done" /\ req[r1].raced
        /\ req[r1].result.status = 200
        /\ req[r2].pc # "idle" /\ ~req[r2].raced
        /\ req[r2].ctx.email = req[r1].ctx.email
        /\ req[r2].ctx # req[r1].ctx

\* Request r takes the step of _sync_user_claims that compares and decides.
SyncDecides(r) == req[r].pc = "sync" /\ req'[r].pc # "sync"

\* C14: _sync_user_claims commits if and only if auth_service_id, full_name
\* or is_admin of the record it was given differs from the claims; the
\* commit writes the claims' values to the columns that differ, in that row
\* only, and when all three match nothing is written.
C14_WriteIffDiffers ==
    [][\A r \in Requests :
          SyncDecides(r) =>
              LET user == req[r].user
                  ctx == req[r].ctx
                  differs == \/ user.auth_service_id # ctx.auth_service_id
                             \/ user.full_name # ctx.full_name
                             \/ user.is_admin # ctx.is_admin
              IN /\ differs <=> req'[r].pc = "synced"
                 /\ ~differs => (users' = users /\ req'[r].pc = "done")
                 /\ differs =>
                       /\ \A f \in {"auth_service_id", "full_name", "is_admin"} :
                             user[f] # ctx[f] => users'[user.id][f] = ctx[f]
                       /\ users'[user.id].email = users[user.id].email
                       /\ users'[user.id].is_active = users[user.id].is_active
                       /\ \A i \in DOMAIN users : i # user.id => users'[i] = users[i]]_vars

\* Two reconciles with the same claims have returned: one created the
\* record, the repeated one found it and wrote nothing.
C14_Witness ==
    \E r1, r2 \in Requests :
        /\ r1 # r2
        /\ req[r1].pc = "done" /\ req[r2].pc = "done"
        /\ req[r1].ctx = req[r2].ctx
        /\ ~req[r1].raced /\ ~req[r2].raced
        /\ ~req[r1].synced /\ ~req[r2].synced
        /\ Len(users) = 1

\* Request r's call of get_current_user returns.
Returns(r) == req[r].pc # "done" /\ req'[r].pc = "done"

\* C15: over any sequence of reconcile calls the store holds at most one
\* record per email; a record is created only for an email that had none,
\* whatever the claims' subject id, name or admin flag; and when a call
\* returns, the record of its email carries the claims' auth_service_id,
\* full_name and is_admin.
C15_OneRecordPerEmail ==
    [][/\ \A e \in Emails : Cardinality(RowsOf(e)') <= 1
       /\ Len(users') > Len(users) =>
              /\ Len(users') = Len(users) + 1
              /\ RowsOf(users'[Len(users')].email) = {}
       /\ \A r \in Requests :
              Returns(r) =>
                  /\ req'[r].result.status = 200
                  /\ RowsOf(req[r].ctx.email)' # {}
                  /\ \A i \in RowsOf(req[r].ctx.email)' :
                        /\ users'[i].auth_service_id = req[r].ctx.auth_service_id
                        /\ users'[i].full_name = req[r].ctx.full_name
                        /\ users'[i].is_admin = req[r].ctx.is_admin
                        /\ req'[r].result.user = users'[i]]_vars

\* A reconcile whose claims differ in subject id, name and admin flag from
\* those that created the record has returned: still one record, now
\* carrying the later claims.
C15_Witness ==
    \E r1, r2 \in Requests :
        /\ req[r1].pc = "done" /\ req[r2].pc = "done"
        /\ req[r1].ctx.email = req[r2].ctx.email
        /\ req[r1].ctx.auth_service_id # req[r2].ctx.auth_service_id
        /\ req[r1].ctx.full_name # req[r2].ctx.full_name
        /\ req[r1].ctx.is_admin # req[r2].ctx.is_admin
        /\ req[r2].synced /\ ~req[r1].synced
        /\ Len(users) = 1
        /\ users[1].is_admin = req[r2].ctx.is_admin
        /\ users[1].auth_service_id = req[r2].ctx.auth_service_id

(***************************************************************************)
(* Claims about the signing key pair                                       *)
(***************************************************************************)
NoConfiguredPair ==
    ~(auth_settings.jwt_private_key # None /\ auth_settings.jwt_public_key # None)

\* The two halves of a returned pair belong to the same generated pair.
Matched(p) == \E k \in 1..NumThreads : p = _generate_rsa_keys(k)

\* C2: with no configured pair, under any interleaving of callers of
\* _get_keys the pair is generated at most once and every call, first or
\* later, returns one and the same pair, whose halves belong together.
C2_GeneratedOnce ==
    NoConfiguredPair =>
        /\ generated <= 1
        /\ Cardinality(observed) <= 1
        /\ \A p \in observed : Matched(p)

(***************************************************************************)
(* Claims about token validation                                           *)
(***************************************************************************)
\* The requests that have been answered after decode_token looked at a token.
Decoded(t) ==
    /\ vt[t].pc = "done"
    /\ vt[t].op = "request"
    /\ vt[t].result.token # None

\* key is the public half of the pair whose private half signed token.
SignedFor(token, key) ==
    \E k \in 0..(MaxKeys + 1) : token.sig = PrivatePem(k) /\ key = PublicPem(k)

\* C3: a token made by create_access_token for a subject id, email, display
\* name and admin flag, validated by decode_token holding the issuer's
\* current public key, yields sub = the decimal string of the subject id and
\* the same email, name and admin while the time is before exp, and is
\* rejected once the time is past exp.
C3_IssuedTokenRoundTrip ==
    \A t \in ValidatorThreads :
        (/\ Decoded(t)
         /\ issued # None
         /\ vt[t].result.token = issued.token
         /\ issued.key = _private_key
         /\ vt[t].result.public_key = _public_key) =>
            LET r == vt[t].result
                p == issued.principal
                decimal == IF p.user_id = 7 THEN <<"7">> ELSE <<"1", "2", "3">>
            IN /\ r.at < issued.token.claims.exp =>
                     /\ r.status = 200
                     /\ r.payload # None
                     /\ r.payload.sub = decimal
                     /\ r.payload.email = p.email
                     /\ r.payload.name = p.full_name
                     /\ r.payload.admin = p.is_admin
               /\ r.at > issued.token.claims.exp =>
                     /\ r.status = 401
                     /\ r.payload = None

\* The issued token of the admin with the three-digit id has been accepted
\* before its exp.
C3_Witness ==
    \E t \in ValidatorThreads :
        /\ Decoded(t)
        /\ issued # None
        /\ vt[t].result.token = issued.token
        /\ issued.principal.user_id = 123
        /\ issued.principal.is_admin
        /\ vt[t].result.public_key = _public_key
        /\ vt[t].result.at < issued.token.claims.exp
        /\ vt[t].result.status = 200

\* C4: a token signed with a private key other than the one matching the
\* public key decode_token holds is rejected, whatever its claims.
C4_OtherKeyRejected ==
    \A t \in ValidatorThreads :
        (/\ Decoded(t)
         /\ vt[t].result.token.kind = "jwt"
         /\ ~SignedFor(vt[t].result.token, vt[t].result.public_key)) =>
            /\ vt[t].result.status = 401
            /\ vt[t].result.payload = None

\* A well-formed, unexpired token signed with somebody else's key has been
\* rejected by a validator holding the issuer's current key.
C4_Witness ==
    \E t \in ValidatorThreads :
        /\ Decoded(t)
        /\ vt[t].result.token = jwt_encode(WellFormedPayload(vt[t].result.at),
                                           PrivatePem(0), "RS256")
        /\ vt[t].result.public_key = _public_key
        /\ vt[t].result.status = 401

\* C5: a correctly signed, unexpired token whose iss is not "auth-service"
\* is rejected by decode_token and the request is answered 401.
C5_OtherIssuerRejected ==
    \A t \in ValidatorThreads :
        (/\ Decoded(t)
         /\ vt[t].result.token.kind = "jwt"
         /\ vt[t].result.token.alg = "RS256"
         /\ SignedFor(vt[t].result.token, vt[t].result.public_key)
         /\ "exp" \in DOMAIN vt[t].result.token.claims
         /\ vt[t].result.at <= vt[t].result.token.claims.exp
         /\ "iss" \in DOMAIN vt[t].result.token.claims
         /\ vt[t].result.token.claims.iss # "auth-service") =>
            /\ vt[t].result.status = 401
            /\ vt[t].result.payload = None

\* A token of another issuer, signed with the key the validator trusts and
\* unexpired, has been answered 401.
C5_Witness ==
    \E t \in ValidatorThreads :
        /\ Decoded(t)
        /\ vt[t].result.token.kind = "jwt"
        /\ SignedFor(vt[t].result.token, vt[t].result.public_key)
        /\ vt[t].result.token.claims =
               [WellFormedPayload(vt[t].result.at) EXCEPT !.iss = "other-service"]
        /\ vt[t].result.status = 401

\* What the caller sees of an answered request.
CallerVisible(t) ==
    [outcome |-> vt[t].result.outcome, status |-> vt[t].result.status,
     detail |-> vt[t].result.detail, ctx |-> vt[t].result.ctx]

\* The token fails verification under key at time at: it is no JWT (malformed
\* or empty), names another algorithm, is signed by another key, has no exp,
\* is expired, or does not carry the expected issuer.
FailsVerification(token, key, at) ==
    \/ token.kind # "jwt"
    \/ /\ token.kind = "jwt"
       /\ \/ token.alg # "RS256"
          \/ ~SignedFor(token, key)
          \/ "exp" \notin DOMAIN token.claims
          \/ ("exp" \in DOMAIN token.claims /\ token.claims.exp < at)
          \/ "iss" \notin DOMAIN token.claims
          \/ ("iss" \in DOMAIN token.claims /\ token.claims.iss # "auth-service")

\* C16: every verification failure (malformed or empty token, bad signature,
\* wrong algorithm, expired, missing exp, wrong issuer) gives one and the
\* same caller-visible outcome: decode_token returns without raising and the
\* request is answered 401 "Could not validate credentials".
C16_OneRejectOutcome ==
    \A t \in ValidatorThreads :
        (/\ Decoded(t)
         /\ FailsVerification(vt[t].result.token, vt[t].result.public_key,
                              vt[t].result.at)) =>
            /\ CallerVisible(t) = [outcome |-> "returned", status |-> 401,
                                   detail |-> "Could not validate credentials",
                                   ctx |-> None]
            /\ vt[t].result.payload = None

\* The issuer's own token, presented after its exp, has been answered with
\* the same 401 as any other failure.
C16_Witness ==
    \E t \in ValidatorThreads :
        /\ Decoded(t)
        /\ issued # None
        /\ vt[t].result.token = issued.token
        /\ SignedFor(vt[t].result.token, vt[t].result.public_key)
        /\ vt[t].result.token.claims.exp < vt[t].result.at
        /\ vt[t].result.detail = "Could not validate credentials"

(***************************************************************************)
(* Claims about the cached public key                                      *)
(***************************************************************************)
\* The calls of get_public_key that have ended.
Called(t) == vt[t].pc = "done" /\ vt[t].op = "get_public_key"

NoStaticKey == backend_settings.jwt_public_key = None

\* The cached key was within its TTL when call t read the clock.
WithinTTL(t) == (vt[t].now - vt[t].before.fetched_at) <= PUBLIC_KEY_TTL_SECONDS

\* C6: with a static public key configured, every get_public_key call, in
\* any cache state, at any cache age, with force_refresh true or false,
\* returns the configured key, and no fetch is ever made.
C6_StaticKeyNeverFetched ==
    ~NoStaticKey =>
        /\ delivered = {}
        /\ \A t \in ValidatorThreads :
               /\ vt[t].nfetch = 0
               /\ Called(t) =>
                     /\ vt[t].result.outcome = "returned"
                     /\ vt[t].result.public_key = backend_settings.jwt_public_key

\* With a static key, a forced call on a cleared cache, more than a TTL after
\* the start, has returned the configured key.
C6_Witness ==
    \E t \in ValidatorThreads :
        /\ ~NoStaticKey
        /\ Called(t)
        /\ vt[t].force_refresh
        /\ vt[t].before.key = None
        /\ now > StartTime + PUBLIC_KEY_TTL_SECONDS
        /\ vt[t].result.public_key = backend_settings.jwt_public_key

\* C7: without a static key, a call on an empty cache makes exactly one
\* fetch; a call within the TTL of a cached key, not forced, makes no fetch
\* and returns that cached key; a forced call within the TTL makes exactly
\* one fetch.
C7_FetchOnceThenCached ==
    NoStaticKey =>
        \A t \in ValidatorThreads :
            Called(t) =>
                /\ vt[t].before.key = None => vt[t].nfetch = 1
                /\ (vt[t].before.key # None /\ WithinTTL(t) /\ ~vt[t].force_refresh) =>
                       /\ vt[t].nfetch = 0
                       /\ vt[t].result.outcome = "returned"
                       /\ vt[t].result.public_key = vt[t].before.key
                /\ (vt[t].before.key # None /\ WithinTTL(t) /\ vt[t].force_refresh) =>
                       vt[t].nfetch = 1

\* A forced call within the TTL of a cached key has fetched once and returned.
C7_Witness ==
    \E t \in ValidatorThreads :
        /\ NoStaticKey
        /\ Called(t)
        /\ vt[t].before.key # None
        /\ WithinTTL(t)
        /\ vt[t].force_refresh
        /\ vt[t].nfetch = 1
        /\ vt[t].result.outcome = "returned"

\* C8: with no static key and no cached key, when the fetch of the public
\* key fails (transport error, error status, timeout, malformed body), the
\* request is rejected: decode_token returns, it does not raise.
C8_FetchFailureRejects ==
    \A t \in ValidatorThreads :
        (/\ vt[t].pc = "done"
         /\ vt[t].op = "request"
         /\ NoStaticKey
         /\ vt[t].before.key = None
         /\ vt[t].failed # "") =>
            /\ vt[t].result.outcome = "returned"
            /\ vt[t].result.status = 401
            /\ vt[t].result.ctx = None

\* A request on an empty cache whose fetch timed out has been answered 401,
\* while the issuer had handed out a token.
C8_Witness ==
    \E t \in ValidatorThreads :
        /\ vt[t].pc = "done"
        /\ vt[t].op = "request"
        /\ NoStaticKey
        /\ vt[t].before.key = None
        /\ vt[t].failed = "TimeoutException"
        /\ issued # None
        /\ vt[t].result.status = 401

\* C9: under any interleaving of get_public_key and clear_public_key_cache
\* calls, every get_public_key call that returns, returns a key that some
\* fetch delivered, never an absent key.
C9_ReturnsDeliveredKey ==
    NoStaticKey =>
        \A t \in ValidatorThreads :
            (Called(t) /\ vt[t].result.outcome = "returned") =>
                /\ vt[t].result.public_key # None
                /\ vt[t].result.public_key \in delivered

(***************************************************************************)
(* Claims about refresh                                                    *)
(***************************************************************************)
\* The stored records the string presented in the last refresh matches:
\* same hash, expires_at later than the time of the request.
MatchingRecords ==
    {i \in DOMAIN refresh_tokens :
        /\ refresh_tokens[i].token_hash = <<"sha256", rr.presented>>
        /\ refresh_tokens[i].expires_at > rr.at}

\* The response carries a fresh access token for user u.
FreshTokenFor(u) ==
    /\ rr.status = 200
    /\ rr.access_token # None
    /\ rr.access_token.claims.sub = (IF u.id = 7 THEN <<"7">> ELSE <<"1", "2", "3">>)
    /\ rr.access_token.claims.email = u.email
    /\ rr.access_token.claims.admin = u.is_admin
    /\ rr.access_token.claims.iat = rr.at

\* C10 as stated: refresh answers 401 to a string that matches no stored
\* unexpired record (never issued, expired, or no hash match), and for a
\* string that matches one it returns a fresh access token with the subject,
\* email and admin flag of the user owning the record.
C10_RefreshAsStated ==
    rr.op = "refresh" =>
        IF MatchingRecords = {}
        THEN rr.status = 401
        ELSE \E i \in MatchingRecords : FreshTokenFor(auth_users[refresh_tokens[i].user_id])

\* C10: refresh answers 401 to a string that matches no stored unexpired
\* record; for a string that matches one it returns a fresh access token
\* with the owner's subject, email and admin flag when the owner is active,
\* and answers 401 when the owner has been deactivated.
C10_RefreshActiveOwner ==
    rr.op = "refresh" =>
        IF MatchingRecords = {}
        THEN rr.status = 401
        ELSE IF rr.user.is_active
        THEN \E i \in MatchingRecords : FreshTokenFor(auth_users[refresh_tokens[i].user_id])
        ELSE rr.status = 401 /\ rr.access_token = None

\* The admin's refresh string, presented some time after the login and
\* before its expiry, has been exchanged for a fresh access token.
C10_Witness ==
    /\ rr.op = "refresh"
    /\ MatchingRecords # {}
    /\ \E i \in MatchingRecords :
          /\ refresh_tokens[i].user_id = 123
          /\ rr.at > refresh_tokens[i].expires_at - timedelta_days(refresh_token_expire_days)
    /\ rr.status = 200
    /\ rr.access_token.claims.admin

\* A refresh request has just been answered.
RefreshAnswered == rr'.op = "refresh" /\ <<rr, redeemed>>' # <<rr, redeemed>>

\* C11: a refresh, successful or not, leaves every refresh-token record as
\* it was (none created, modified or deleted) and its response carries no
\* refresh token; so a string that was redeemed still matches its unexpired
\* record and can be redeemed again.
C11_RefreshLeavesRecords ==
    [][RefreshAnswered =>
          /\ refresh_tokens' = refresh_tokens
          /\ rr'.refresh_token = None
          /\ rr'.status = 200 =>
                \E i \in DOMAIN refresh_tokens' :
                    /\ refresh_tokens'[i].token_hash = <<"sha256", rr'.presented>>
                    /\ refresh_tokens'[i].expires_at > now']_vars

\* One refresh string has been redeemed a second time, some time after the
\* login that returned it, and both records of the store are still there.
C11_Witness ==
    /\ rr.op = "refresh"
    /\ rr.status = 200
    /\ redeemed[rr.presented] = 2
    /\ Len(refresh_tokens) = MaxLogins
    /\ \A i \in DOMAIN refresh_tokens :
           rr.at > refresh_tokens[i].expires_at - timedelta_days(refresh_token_expire_days)

\* C12: every stored refresh-token record holds the one-way hash of a
\* plaintext login returned, never a plaintext; a response carries a
\* plaintext only if it is the response of the login that stored the record
\* of that plaintext.
C12_OnlyHashStored ==
    /\ \A i \in DOMAIN refresh_tokens :
           /\ refresh_tokens[i].token_hash \notin RefreshStrings
           /\ \E p \in RefreshStrings : refresh_tokens[i].token_hash = <<"sha256", p>>
    /\ rr.refresh_token # None =>
           /\ rr.op = "login"
           /\ rr.status = 200
           /\ rr.refresh_token \in RefreshStrings
           /\ refresh_tokens[Len(refresh_tokens)].token_hash = <<"sha256", rr.refresh_token>>
           /\ \A i \in 1..(Len(refresh_tokens) - 1) :
                  refresh_tokens[i].token_hash # <<"sha256", rr.refresh_token>>

\* A second login has returned its plaintext while the store holds the
\* hashes of both logins, after a refresh had been answered in between.
C12_Witness ==
    /\ rr.op = "login"
    /\ rr.refresh_token # None
    /\ Len(refresh_tokens) = 2
    /\ refresh_tokens[2].token_hash = <<"sha256", rr.refresh_token>>
    /\ \E p \in RefreshStrings : redeemed[p] > 0

\* What the client sees of the last response.
ResponseVisible ==
    [status |-> rr.status, detail |-> rr.detail, headers |-> rr.headers,
     access_token |-> rr.access_token, refresh_token |-> rr.refresh_token]

\* The emails of the registered identities.
RegisteredEmails == {auth_users[id].email : id \in DOMAIN auth_users}

\* C17: the login response for an email that matches no identity and the
\* login response for an existing identity with a wrong password are one
\* and the same: 401, the same detail, the same headers, no token.
C17_NoUserEnumeration ==
    (/\ rr.op = "login"
     /\ \/ rr.presented[1] \notin RegisteredEmails
        \/ ~rr.presented[2]) =>
        ResponseVisible = [status |-> 401, detail |-> "Incorrect email or password",
                           headers |-> <<"WWW-Authenticate", "Bearer">>,
                           access_token |-> None, refresh_token |-> None]

\* A login for an email no identity has, with a password that would pass,
\* has been answered 401.
C17_Witness ==
    /\ rr.op = "login"
    /\ rr.presented[1] \notin RegisteredEmails
    /\ rr.presented[2]
    /\ rr.status = 401

\* A login or refresh request has just been answered.
Answered ==
    <<rr, refresh_tokens, redeemed>>' # <<rr, refresh_tokens, redeemed>>

\* C18: an identity whose is_active is false obtains no access token: a
\* login with its email (correct password or not) is answered 401 and
\* stores no refresh-token record, and a refresh with a string matching one
\* of its records is answered 401.
C18_InactiveGetsNoToken ==
    [][Answered =>
          /\ (/\ rr'.op = "login"
              /\ \E id \in DOMAIN auth_users :
                     /\ auth_users[id].email = rr'.presented[1]
                     /\ ~auth_users[id].is_active) =>
                 /\ rr'.status = 401
                 /\ rr'.access_token = None
                 /\ rr'.refresh_token = None
                 /\ refresh_tokens' = refresh_tokens
          /\ (/\ rr'.op = "refresh"
              /\ \E i \in DOMAIN refresh_tokens :
                     /\ refresh_tokens[i].token_hash = <<"sha256", rr'.presented>>
                     /\ ~auth_users[refresh_tokens[i].user_id].is_active) =>
                 /\ rr'.status = 401
                 /\ rr'.access_token = None]_vars

\* A deactivated identity that holds an unexpired refresh-token record has
\* logged in with its correct password and been answered 401.
C18_Witness ==
    /\ rr.op = "login"
    /\ rr.presented[2]
    /\ rr.status = 401
    /\ rr.access_token = None
    /\ \E id \in DOMAIN auth_users :
           /\ auth_users[id].email = rr.presented[1]
           /\ ~auth_users[id].is_active
           /\ \E i \in DOMAIN refresh_tokens :
                  /\ refresh_tokens[i].user_id = id
                  /\ refresh_tokens[i].expires_at > rr.at

(***************************************************************************)
(* Claims about the rate limiter                                           *)
(***************************************************************************)
RateKeys == Operations \X ClientAddresses

\* The requests the limiter has counted for key k in the window open now.
Seen(k) ==
    IF rate_counters[k].expires_at > now THEN rate_counters[k].count ELSE 0

\* The key of the request the last answer went to.
AnsweredKey(answer) == <<answer.op, answer.address>>

ProxiedClient == <<"a">>
Peer == <<"p">>

\* C19: within one rate window and for one client address, the first N
\* requests to an operation are not throttled and request N+1 is answered
\* 429, with N = 5 for login, 3 for registration and 10 for refresh; a
\* request counts whatever its handler answers, the 401 rejection included,
\* and 429 is not a status a handler answers with.
C19_ThrottledPastLimit ==
    [][ now' = now =>
          LET k == AnsweredKey(rl')
          IN /\ LOGIN_LIMIT = 5 /\ REGISTER_LIMIT = 3 /\ REFRESH_LIMIT = 10
             /\ rate_counters'[k].count = Seen(k) + 1
             /\ Seen(k) < LimitOf(k[1]) => rl'.status \in HandlerStatuses
             /\ Seen(k) >= LimitOf(k[1]) => rl'.status = 429
             /\ 429 \notin HandlerStatuses ]_vars

\* The sixth login of a window from one address was answered 429.
C19_Witness ==
    /\ rl = [op |-> "login", address |-> ProxiedClient, status |-> 429]
    /\ rate_counters[<<"login", ProxiedClient>>].count = LOGIN_LIMIT + 1

\* C20: counters are independent per (operation, client address): a request
\* changes the counter of its own key only, and a key that is under its limit
\* is not throttled because another key is exhausted; so exhausting login for
\* an address leaves its registration and refresh requests, and the logins of
\* other addresses, unthrottled.
C20_CountersIndependent ==
    [][ now' = now =>
          LET k == AnsweredKey(rl')
          IN \A other \in RateKeys \ {k} :
                /\ rate_counters'[other] = rate_counters[other]
                /\ (Seen(other) >= LimitOf(other[1]) /\ Seen(k) < LimitOf(k[1]))
                       => rl'.status # 429 ]_vars

\* With the login limit of an address exhausted in the open window, it is
\* answered a registration, and another address a login, by the handler.
C20_Witness ==
    /\ Seen(<<"login", ProxiedClient>>) > LOGIN_LIMIT
    /\ rate_counters[<<"login", Peer>>].count > 0
    /\ rate_counters[<<"refresh", ProxiedClient>>].count > 0
    /\ rl = [op |-> "register", address |-> ProxiedClient, status |-> 200]

(***************************************************************************)
(* Claims about the rate-limit key                                         *)
(***************************************************************************)
\* The first comma-separated entry of header value h without the whitespace
\* around it, said by positions: i is where the first comma is (or the end),
\* a and b are the lengths of the whitespace runs at both ends of the entry.
FirstHop(h) ==
    LET i == CHOOSE i \in 1..(Len(h) + 1) :
                 /\ \A j \in 1..(i - 1) : h[j] # ","
                 /\ i = Len(h) + 1 \/ h[i] = ","
        entry == SubSeq(h, 1, i - 1)
        a == CHOOSE a \in 0..Len(entry) :
                 /\ \A j \in 1..a : entry[j] \in Whitespace
                 /\ a = Len(entry) \/ entry[a + 1] \notin Whitespace
        b == CHOOSE b \in 0..(Len(entry) - a) :
                 /\ \A j \in (Len(entry) - b + 1)..Len(entry) : entry[j] \in Whitespace
                 /\ b = Len(entry) - a \/ entry[Len(entry) - b] \notin Whitespace
    IN SubSeq(entry, a + 1, Len(entry) - b)

HasForwarded(request) == request.forwarded # None /\ request.forwarded[1] # <<>>

\* C21: the rate-limit key of a request is the first comma-separated entry,
\* whitespace-trimmed, of X-Forwarded-For when the header is present and
\* non-empty, and the peer address otherwise; two requests from the same
\* peer with different first hops get different keys.
C21_KeyIsFirstHop ==
    /\ \A n \in DOMAIN keyed :
          LET request == keyed[n].request
          IN IF HasForwarded(request)
             THEN keyed[n].key = FirstHop(request.forwarded[1])
             ELSE request.host # <<>> => keyed[n].key = request.host
    /\ \A n, m \in DOMAIN keyed :
          LET one == keyed[n].request
              two == keyed[m].request
          IN (/\ one.host = two.host
              /\ HasForwarded(one) /\ HasForwarded(two)
              /\ FirstHop(one.forwarded[1]) # FirstHop(two.forwarded[1]))
                => keyed[n].key # keyed[m].key

\* Two requests from one peer, first hops " a" and "b", were keyed a and b.
C21_Witness ==
    /\ Len(keyed) = 2
    /\ keyed[1] = [request |-> [forwarded |-> Some(<<" ", "a", ",">>), host |-> <<"p">>],
                   key |-> <<"a">>]
    /\ keyed[2] = [request |-> [forwarded |-> Some(<<"b", ",", "a">>), host |-> <<"p">>],
                   key |-> <<"b">>]

(***************************************************************************)
(* Claims about what the issuer's endpoints send                           *)
(***************************************************************************)
PrivatePems == {PrivatePem(k) : k \in 0..NumThreads}

PublicPems == {PublicPem(k) : k \in 0..NumThreads}

\* The messages validate_token reports: str(e) of jose's JWTError.
ValidateErrors == {"malformed", "algorithm", "signature", "missing", "expired", "issuer"}

\* C22: the only key material the issuer sends is the public half: the
\* public-key endpoint's body is the public key and the algorithm identifier
\* and never the private key, and the bodies of login, refresh and validate
\* are made of a token (which carries a signature, not the key that made
\* it), a refresh string, constants and claims, none of them a key.
C22_OnlyPublicHalfSent ==
    /\ sent.op = "public-key" =>
          /\ DOMAIN sent.body = {"public_key", "algorithm"}
          /\ sent.body.public_key \in PublicPems
          /\ sent.body.public_key \notin PrivatePems
          /\ sent.body.algorithm = "RS256"
    /\ sent.op \in {"login", "refresh"} =>
          /\ DOMAIN sent.body = {"access_token", "refresh_token", "token_type", "expires_in"}
          /\ sent.body.access_token.kind = "jwt"
          /\ sent.body.refresh_token \in {None, Some(create_refresh_token(1))}
          /\ sent.body.token_type = "bearer"
          /\ sent.body.expires_in = 60 * access_token_expire_minutes
    /\ sent.op = "validate" =>
          IF sent.body.valid
          THEN /\ DOMAIN sent.body = {"valid", "user_id", "email", "is_admin"}
               /\ sent.body.user_id = EndpointUser.user_id
               /\ sent.body.email = EndpointUser.email
               /\ sent.body.is_admin = EndpointUser.is_admin
          ELSE /\ DOMAIN sent.body = {"valid", "error"}
               /\ sent.body.error \in ValidateErrors

\* The public-key endpoint has answered with the public half of a pair the
\* process generated.
C22_Witness ==
    /\ sent.op = "public-key"
    /\ NoConfiguredPair
    /\ _private_key \in PrivatePems
    /\ sent.body.public_key = _public_key

\* No request is inside _get_keys.
Quiescent == \A t \in KeyThreads : kt[t].pc = "idle"

\* The key get_public_key returns, and the key create_access_token signs
\* with, when called now.
ServedKey ==
    IF NoConfiguredPair THEN _public_key ELSE auth_settings.jwt_public_key

SigningKey ==
    IF NoConfiguredPair THEN _private_key ELSE auth_settings.jwt_private_key

\* C23: at every moment the key the public-key endpoint returns is the
\* public half of the pair create_access_token signs with at that moment:
\* once the process holds key material and no call is changing it, the
\* served key verifies what the signing key signs.
C23_ServedKeyMatchesSigningKey ==
    (Quiescent /\ ServedKey # None /\ SigningKey # None) =>
        \E k \in 0..NumThreads : SigningKey = PrivatePem(k) /\ ServedKey = PublicPem(k)

(***************************************************************************)
(* Claims about the cached key after an issuer key change                  *)
(***************************************************************************)
\* C24: without a static key, a get_public_key call made later than the
\* TTL after the issuer's latest key change, whose fetch (if it makes one)
\* succeeds, returns the issuer's new public key, under which the tokens the
\* issuer signs from then on verify.
C24_StalenessBoundedByTTL ==
    \A t \in ValidatorThreads :
        (/\ NoStaticKey
         /\ Called(t)
         /\ rotated_at # 0
         /\ vt[t].before.at > rotated_at + PUBLIC_KEY_TTL_SECONDS
         /\ vt[t].result.outcome = "returned") =>
            /\ vt[t].result.public_key = _public_key
            /\ \E k \in 1..(MaxKeys + 1) :
                  _private_key = PrivatePem(k) /\ vt[t].result.public_key = PublicPem(k)

\* A call found the key of the pair before the change in the cache, more
\* than the TTL after the change, and has returned the new one.
C24_Witness ==
    \E t \in ValidatorThreads :
        /\ NoStaticKey
        /\ Called(t)
        /\ rotated_at # 0
        /\ vt[t].before.at > rotated_at + PUBLIC_KEY_TTL_SECONDS
        /\ vt[t].before.key = PublicPem(1)
        /\ ~vt[t].force_refresh
        /\ vt[t].result.outcome = "returned"
        /\ vt[t].result.public_key = PublicPem(2)

\* clear_public_key_cache returns in this step.
ClearReturns(t) == vt[t].pc = "clear_time" /\ vt'[t].pc = "done"

\* Call t found the cache as clear_public_key_cache leaves it.
FoundCleared(t) == vt[t].before.key = None /\ vt[t].before.fetched_at = 0

\* C25: clear_public_key_cache leaves no key and no fetch time behind,
\* however recent the fetch before it was, and the get_public_key call that
\* finds the cache so, without a static key, makes a fetch and returns the
\* key that fetch delivered.
C25_ClearForcesFetch ==
    /\ [][\A t \in ValidatorThreads :
            ClearReturns(t) => (_cached_public_key' = None /\ _public_key_fetched_at' = 0)]_vars
    /\ [](\A t \in ValidatorThreads :
            (NoStaticKey /\ Called(t) /\ FoundCleared(t)) =>
                /\ vt[t].nfetch = 1
                /\ vt[t].result.outcome = "returned" =>
                      /\ vt[t].fetched # None
                      /\ vt[t].fetched \in delivered
                      /\ vt[t].result.public_key = vt[t].fetched)

\* With no time passed since key 1 was fetched, the issuer changed its key,
\* the cache was cleared, and the next call has fetched and returned key 2.
C25_Witness ==
    \E t \in ValidatorThreads :
        /\ NoStaticKey
        /\ Called(t)
        /\ FoundCleared(t)
        /\ ~vt[t].force_refresh
        /\ ticks = 0
        /\ PublicPem(1) \in delivered
        /\ vt[t].result.outcome = "returned"
        /\ vt[t].result.public_key = PublicPem(2)

(***************************************************************************)
(* Cart and orders                                                         *)
(***************************************************************************)
RECURSIVE SumSeq(_)
SumSeq(numbers) == IF numbers = <<>> THEN 0 ELSE Head(numbers) + SumSeq(Tail(numbers))

\* Price times quantity, summed over the rows of a cart, at the prices of
\* the state the request met.
CartTotal(cart) ==
    SumSeq([i \in DOMAIN cart |-> products[cart[i].product_id].price * cart[i].quantity])

\* The quantity of product_id ordered by a list of cart rows or order items.
OrderedQuantity(rows, product_id) ==
    SumSeq([i \in DOMAIN rows |->
               IF rows[i].product_id = product_id THEN rows[i].quantity ELSE 0])

\* C26: a successful create_order of a user with a non-empty cart adds
\* exactly one order, in status pending, whose total is the sum of price
\* times quantity over the cart items and which has one order item per cart
\* item; it decreases each product's stock by exactly the quantity ordered
\* and leaves the user's cart empty.
C26_CreateOrderEffects ==
    [][\A user \in ShopUsers :
          (create_order(user) /\ shop'.status = 201) =>
              LET cart == cart_of(user)
                  order == orders'[Len(orders')]
              IN /\ cart # <<>>
                 /\ Len(orders') = Len(orders) + 1
                 /\ \A id \in DOMAIN orders : orders'[id] = orders[id]
                 /\ order.user_id = user
                 /\ order.status = "pending"
                 /\ order.total_amount = CartTotal(cart)
                 /\ Len(order.items) = Len(cart)
                 /\ \A i \in DOMAIN cart :
                       /\ order.items[i].product_id = cart[i].product_id
                       /\ order.items[i].quantity = cart[i].quantity
                       /\ order.items[i].unit_price = products[cart[i].product_id].price
                 /\ \A id \in ProductIds :
                       products'[id].stock = products[id].stock - OrderedQuantity(cart, id)
                 /\ \A i \in DOMAIN cart_items' : cart_items'[i].user_id # user
                 /\ SelectSeq(cart_items, LAMBDA row : row.user_id # user) = cart_items'
      ]_vars

\* An order of two different products has just been placed.
C26_Witness ==
    /\ shop.op = "create_order"
    /\ shop.status = 201
    /\ orders # <<>>
    /\ LET order == orders[Len(orders)]
       IN /\ order.status = "pending"
          /\ Len(order.items) = 2
          /\ order.total_amount = 2 * PriceOf(1) + PriceOf(2)
          /\ products[1].stock = InitialStock - 2
          /\ cart_of(order.user_id) = <<>>

\* C27: cancel_order changes a status only from pending to cancelled, and
\* on that step adds each order item's quantity back to its product's
\* stock; for an order in any other status it answers 400 and changes
\* neither the status nor any stock, so a second cancel of the same order
\* restores nothing.
C27_CancelOnlyPending ==
    [][\A user \in ShopUsers, order_id \in OrderIds :
          cancel_order(user, order_id) =>
              /\ \A id \in DOMAIN orders :
                    orders'[id].status # orders[id].status =>
                        /\ id = order_id
                        /\ orders[id].status = "pending"
                        /\ orders'[id].status = "cancelled"
              /\ (order_id \in DOMAIN orders /\ orders[order_id].user_id = user) =>
                    IF orders[order_id].status = "pending"
                    THEN /\ shop'.status = 200
                         /\ orders'[order_id].status = "cancelled"
                         /\ \A id \in ProductIds :
                               products'[id].stock = products[id].stock
                                   + OrderedQuantity(orders[order_id].items, id)
                    ELSE /\ shop'.status = 400
                         /\ orders' = orders
                         /\ products' = products
      ]_vars

\* A cancelled order has just been cancelled again and refused, with the
\* stock back at what it was before the order.
C27_Witness ==
    /\ shop.op = "cancel_order"
    /\ shop.status = 400
    /\ Len(orders) = 1
    /\ orders[1].status = "cancelled"
    /\ \A id \in ProductIds : products[id].stock = InitialStock

\* C29: the cart holds at most one row per (user, product); an add_to_cart
\* of a product already in the caller's cart adds no row and increases the
\* quantity of the existing row by the quantity added.
OneRowPerProduct ==
    \A i, j \in DOMAIN cart_items :
        (cart_items[i].user_id = cart_items[j].user_id
           /\ cart_items[i].product_id = cart_items[j].product_id) => i = j

C29_OneCartItemPerProduct ==
    /\ [](OneRowPerProduct)
    /\ [][\A user \in ShopUsers, product_id \in ProductIds, quantity \in Quantities :
             (add_to_cart(user, product_id, quantity) /\ shop'.status = 201
                /\ cart_rows(user, product_id) # {}) =>
                 /\ Len(cart_items') = Len(cart_items)
                 /\ \A i \in DOMAIN cart_items :
                       cart_items'[i] =
                           IF i \in cart_rows(user, product_id)
                           THEN [cart_items[i] EXCEPT !.quantity = @ + quantity]
                           ELSE cart_items[i]
         ]_vars

\* A product was added to a cart that had it: one row, with both quantities.
C29_Witness ==
    /\ shop.op = "add_to_cart"
    /\ shop.status = 201
    /\ \E i \in DOMAIN cart_items : cart_items[i].quantity = 2
    /\ Len(cart_items) = 1

(***************************************************************************)
(* Registration                                                            *)
(***************************************************************************)
\* C28: under every interleaving of register requests the users table
\* holds at most one row per email, and a register request answered while
\* its email is in the table is answered 409 and adds or changes no row.
OneUserPerEmail ==
    \A i, j \in DOMAIN accounts : accounts[i].email = accounts[j].email => i = j

C28_DuplicateEmailAnswered409 ==
    /\ [](OneUserPerEmail)
    /\ [][\A t \in RegisterThreads :
             /\ \A email \in RegisterEmails :
                   (register_check(t, email) /\ email_registered(email)) =>
                       (reg'[t].status = 409 /\ accounts' = accounts)
             /\ (register_commit(t) /\ email_registered(reg[t].email)) =>
                       (reg'[t].status = 409 /\ accounts' = accounts)
         ]_vars

(***************************************************************************)
(* Token lifetime                                                          *)
(***************************************************************************)
\* C30: in every token create_access_token issues, exp minus iat is the
\* expires_delta passed, or access_token_expire_minutes (in seconds) when
\* none is passed, and iat is the time of issuing.
C30_LifetimeIsTtl ==
    [][\A p \in Principals, expires_delta \in ExpiresDeltas :
          issue_token(p, expires_delta) =>
              LET claims == issued'.token.claims
              IN /\ claims.iat = now
                 /\ claims.exp - claims.iat =
                       IF expires_delta = None
                       THEN 60 * access_token_expire_minutes
                       ELSE expires_delta[1]
      ]_vars

\* A token with a custom lifetime of one second was issued after the clock
\* had moved.
C30_Witness ==
    /\ issued # None
    /\ issued.token.claims.iat > 0
    /\ issued.token.claims.exp = issued.token.claims.iat + 1

(***************************************************************************)
(* Claims about when the cached key is refetched                           *)
(***************************************************************************)
\* The age of the cached key at the clock value call t read.
AgeAtCall(t) == vt[t].now - vt[t].before.fetched_at

\* C31: without a static key, get_public_key fetches if and only if the
\* cache holds no key, or force_refresh is set, or the age of the key is
\* strictly greater than the TTL of 86400 s; at an age of the TTL or less it
\* returns the cached key without a fetch; and a fetch that succeeds leaves
\* fetched_at at the time the call read, from which the TTL runs.
C31_FetchIffNeeded ==
    \A t \in ValidatorThreads :
        (NoStaticKey /\ Called(t)) =>
            /\ vt[t].nfetch \in {0, 1}
            /\ vt[t].nfetch = 1 <=>
                  \/ vt[t].before.key = None
                  \/ vt[t].force_refresh
                  \/ AgeAtCall(t) > 86400
            /\ vt[t].nfetch = 0 =>
                  /\ vt[t].result.outcome = "returned"
                  /\ vt[t].result.public_key = vt[t].before.key
                  /\ _public_key_fetched_at = vt[t].before.fetched_at
            /\ (vt[t].nfetch = 1 /\ vt[t].result.outcome = "returned") =>
                  /\ _public_key_fetched_at = vt[t].now
                  /\ _cached_public_key = vt[t].fetched
                  /\ vt[t].before.at <= vt[t].now
                  /\ vt[t].now <= vt[t].result.at

\* A call that is not forced has found a key aged exactly the TTL and has
\* returned it without a fetch.
C31_Witness ==
    \E t \in ValidatorThreads :
        /\ NoStaticKey
        /\ Called(t)
        /\ ~vt[t].force_refresh
        /\ vt[t].before.key # None
        /\ AgeAtCall(t) = PUBLIC_KEY_TTL_SECONDS
        /\ vt[t].nfetch = 0
        /\ vt[t].result.public_key = vt[t].before.key

\* Call t (a get_public_key call or a request) has ended.
Ended(t) == vt[t].pc = "done" /\ vt[t].op \in {"get_public_key", "request"}

\* Call t had to refetch a key the cache held.
RefetchDue(t) ==
    /\ NoStaticKey
    /\ vt[t].before.key # None
    /\ (AgeAtCall(t) > PUBLIC_KEY_TTL_SECONDS \/ vt[t].force_refresh)

C33_FailedOrderChangesNothing ==
    [][\A user \in ShopUsers :
          (create_order(user) /\ shop'.status # 201) =>
              /\ shop'.status = 400
              /\ products' = products
              /\ orders' = orders
              /\ cart_items' = cart_items
      ]_vars

\* The last create_order failed for want of stock on the second row of a
\* cart whose first row could be served.
C33_Witness ==
    /\ shop.op = "create_order"
    /\ shop.status = 400
    /\ shop.detail = "Insufficient stock"
    /\ \E user \in ShopUsers :
          LET cart == cart_of(user)
          IN /\ Len(cart) = 2
             /\ products[cart[1].product_id].is_active
             /\ products[cart[1].product_id].stock >= cart[1].quantity
             /\ products[cart[2].product_id].is_active
             /\ products[cart[2].product_id].stock < cart[2].quantity

\* The quantity of product id in the orders that are in one of statuses.
QuantityInOrders(id, statuses) ==
    SumSeq([o \in DOMAIN orders |->
               IF orders[o].status \in statuses
               THEN OrderedQuantity(orders[o].items, id) ELSE 0])

\* C34: under any interleaving of create_order requests of different users
\* whose carts hold the same product, the stock of a product is never
\* negative, and the quantity of it in the orders that stand is never more
\* than the stock there was.
C34_NoOverselling ==
    \A id \in ProductIds :
        /\ products[id].stock >= 0
        /\ QuantityInOrders(id, {"pending", "shipped"}) <= InitialStock

\* C35: for every product, its stock plus the quantities of it in pending
\* orders is the same after any sequence and any interleaving of
\* create_order and cancel_order requests.
C35_StockConserved ==
    \A id \in ProductIds :
        products[id].stock + QuantityInOrders(id, {"pending"}) = InitialStock

\* C36: after any sequence of add_to_cart and update_cart_item requests
\* every stored cart row has a quantity of at least 1; a request with a
\* quantity of zero or less is rejected and changes nothing; so create_order
\* never increases a stock and never makes an order with a negative total.
C36_QuantityAtLeastOne ==
    /\ [](\A i \in DOMAIN cart_items : cart_items[i].quantity >= 1)
    /\ [][\A user \in ShopUsers, quantity \in RequestQuantities :
             quantity < 1 =>
                 /\ \A product_id \in ProductIds :
                       add_to_cart(user, product_id, quantity) =>
                           (shop'.status >= 400 /\ cart_items' = cart_items)
                 /\ \A item_id \in ItemIds :
                       update_cart_item(user, item_id, quantity) =>
                           (shop'.status >= 400 /\ cart_items' = cart_items)
         ]_vars
    /\ [][\A user \in ShopUsers :
             create_order(user) =>
                 /\ \A id \in ProductIds : products'[id].stock <= products[id].stock
                 /\ \A o \in DOMAIN orders' : orders'[o].total_amount >= 0
         ]_vars

\* An order has raised a stock above what the shop started with.
StockRaisedByOrder ==
    /\ shop.op = "create_order"
    /\ shop.status = 201
    /\ \E id \in ProductIds : products[id].stock > InitialStock
    /\ \E o \in DOMAIN orders : orders[o].total_amount < 0

\* C37: after every successful add_to_cart or update_cart_item the
\* quantity of the cart row is at most the product's stock at that moment,
\* also when add_to_cart adds to a row the cart already has; a request that
\* would go beyond the stock is answered 400 "Insufficient stock" and leaves
\* the cart as it was.
C37_CartWithinStock ==
    [][\A user \in ShopUsers, quantity \in Quantities :
          /\ \A product_id \in ProductIds :
                add_to_cart(user, product_id, quantity) =>
                    LET held == SumSeq([i \in DOMAIN cart_items |->
                                           IF i \in cart_rows(user, product_id)
                                           THEN cart_items[i].quantity ELSE 0])
                    IN IF held + quantity > products[product_id].stock
                       THEN /\ shop'.status = 400
                            /\ shop'.detail = "Insufficient stock"
                            /\ cart_items' = cart_items
                       ELSE shop'.status = 201 =>
                               \A i \in cart_rows(user, product_id) :
                                   cart_items'[i].quantity <= products[product_id].stock
          /\ \A item_id \in ItemIds :
                (update_cart_item(user, item_id, quantity) /\ owns_item(user, item_id)) =>
                    IF quantity > products[cart_items[item_id].product_id].stock
                    THEN /\ shop'.status = 400
                         /\ shop'.detail = "Insufficient stock"
                         /\ cart_items' = cart_items
                    ELSE shop'.status = 200 => cart_items'[item_id].quantity = quantity
      ]_vars

\* The cart rows and the orders of the users other than user, after the
\* step, are those of before.
OthersUntouched(user) ==
    /\ SelectSeq(cart_items', LAMBDA row : row.user_id # user)
           = SelectSeq(cart_items, LAMBDA row : row.user_id # user)
    /\ Len(orders') >= Len(orders)
    /\ \A o \in DOMAIN orders : orders[o].user_id # user => orders'[o] = orders[o]
    /\ \A o \in DOMAIN orders' : o \notin DOMAIN orders => orders'[o].user_id = user

\* The row or order addressed exists and belongs to somebody else.
ForeignItem(user, item_id) ==
    item_id \in DOMAIN cart_items /\ cart_items[item_id].user_id # user

ForeignOrder(user, order_id) ==
    order_id \in DOMAIN orders /\ orders[order_id].user_id # user

\* C38: update_cart_item, remove_from_cart, get_order and cancel_order
\* addressed to a row or order of another user answer 404 and change
\* nothing; clear_cart and create_order delete the caller's cart rows and
\* no others; an order is shown to its owner only.
C38_OwnDataOnly ==
    [][\A user \in ShopUsers :
          /\ \A item_id \in ItemIds :
                /\ \A quantity \in Quantities :
                      (update_cart_item(user, item_id, quantity)
                         /\ ForeignItem(user, item_id)) =>
                          (shop'.status = 404 /\ UNCHANGED <<cart_items, orders, products>>)
                /\ (remove_from_cart(user, item_id) /\ ForeignItem(user, item_id)) =>
                          (shop'.status = 404 /\ UNCHANGED <<cart_items, orders, products>>)
                /\ remove_from_cart(user, item_id) => OthersUntouched(user)
          /\ \A order_id \in OrderIds :
                /\ (get_order(user, order_id) /\ ForeignOrder(user, order_id)) =>
                          (shop'.status = 404 /\ UNCHANGED <<cart_items, orders, products>>)
                /\ (get_order(user, order_id) /\ shop'.status = 200) =>
                          orders[order_id].user_id = user
                /\ (cancel_order(user, order_id) /\ ForeignOrder(user, order_id)) =>
                          (shop'.status = 404 /\ UNCHANGED <<cart_items, orders, products>>)
          /\ clear_cart(user) =>
                (OthersUntouched(user) /\ cart_of(user)' = <<>> /\ UNCHANGED <<orders, products>>)
          /\ create_order(user) => OthersUntouched(user)
      ]_vars

\* With every place of the cart table taken, a remove_from_cart has been
\* answered 404: the row it named is another user's, and it is still there.
C38_Witness ==
    /\ shop.op = "remove_from_cart"
    /\ shop.status = 404
    /\ Len(cart_items) = MaxCartRows
    /\ \E i, j \in DOMAIN cart_items : cart_items[i].user_id # cart_items[j].user_id

\* The local record of request r's email is inactive.
RecordInactive(r) == \E i \in RowsOf(req[r].ctx.email) : ~users[i].is_active

\* C39: no step of get_current_user changes the is_active flag of a local
\* record that exists, a record it inserts is active, an inactive record
\* stays inactive, and a request received after its email's record was
\* deactivated is answered 400 "Inactive user" by get_current_active_user,
\* whatever claims its token carries.
C39_ActiveFlagKept ==
    /\ [][ /\ req' # req =>
               /\ \A i \in DOMAIN users : users'[i].is_active = users[i].is_active
               /\ \A i \in DOMAIN users' \ DOMAIN users : users'[i].is_active
           /\ \A i \in DOMAIN users : ~users[i].is_active => ~users'[i].is_active
         ]_vars
    /\ [](\A r \in Requests :
             (au[r].status # 0 /\ ~au[r].early /\ RecordInactive(r))
                 => au[r].status = 400 /\ au[r].detail = "Inactive user")

\* A request received after the deactivation, whose token's claims differed
\* from the record and were written to it, has been answered 400.
C39_Witness ==
    \E r \in Requests :
        /\ au[r].status = 400
        /\ ~au[r].early
        /\ req[r].synced
        /\ RecordInactive(r)

\* The validators have been given a token.
Compared == both.at # 0

\* The token compared carries iss "auth-service".
IssuerTagMatches ==
    /\ "iss" \in DOMAIN both.token.claims
    /\ both.token.claims.iss = "auth-service"

\* C40: with the same key pair and at the same time, validate_token of the
\* auth service and decode_token of the backend accept the same tokens and
\* return the same claims, and both reject a token whose iss is not
\* "auth-service" and a token without exp.
C40_ValidatorsAgree ==
    Compared =>
        /\ both.issuer.ok <=> both.consumer # None
        /\ both.issuer.ok => both.consumer = Some(both.issuer.claims)
        /\ both.token.kind = "jwt" /\ ~IssuerTagMatches
               => ~both.issuer.ok /\ both.consumer = None
        /\ both.token.kind = "jwt" /\ "exp" \notin DOMAIN both.token.claims
               => ~both.issuer.ok /\ both.consumer = None

\* The two validators agree on every token that carries iss "auth-service"
\* and iat, and on the claims they return for it.
ValidatorsAgreeOnIssuedShape ==
    (Compared /\ both.token.kind = "jwt" /\ IssuerTagMatches
              /\ "iat" \in DOMAIN both.token.claims)
        => /\ both.issuer.ok <=> both.consumer # None
           /\ both.issuer.ok => both.consumer = Some(both.issuer.claims)

(***************************************************************************)
(* Specifications                                                          *)
(***************************************************************************)
InitReconcile == ReconInit /\ KeysRest /\ ClockInit /\ ValidatorRest /\ RefreshInit /\ RateInit /\ OtherInit

SpecReconcile == InitReconcile /\ [][ReconNext]_vars

SpecReconcileSerial == InitReconcile /\ [][ReconSerialNext]_vars

SpecActive == InitReconcile /\ [][ActiveNext]_vars

InitKeys == KeysInit /\ ReconInit /\ ClockInit /\ ValidatorRest /\ RefreshInit /\ RateInit /\ OtherInit

SpecKeys == InitKeys /\ [][KeysNext]_vars

InitValidator == ReconInit /\ IssuerReady /\ ClockInit /\ ValidatorInit /\ RefreshInit /\ RateInit /\ OtherInit

SpecToken == InitValidator /\ [][TokenNext]_vars

SpecCache == InitValidator /\ [][CacheNext]_vars

SpecCacheThreads == InitValidator /\ [][CacheThreadsNext]_vars

SpecStaleKey == InitValidator /\ [][StaleKeyNext]_vars

InitRefresh == ReconInit /\ IssuerReady /\ ClockInit /\ ValidatorRest /\ RefreshInit /\ RateInit /\ OtherInit

SpecRefresh == InitRefresh /\ [][RefreshNext]_vars

SpecCompare == InitRefresh /\ [][CompareNext]_vars

SpecRateLimit == InitRefresh /\ [][RateNext]_vars

SpecRateKey == InitRefresh /\ [][RateKeyNext]_vars

InitEndpoints == KeysInit /\ ReconInit /\ ClockInit /\ ValidatorRest /\ RefreshInit /\ RateInit /\ OtherInit

SpecEndpoints == InitEndpoints /\ [][EndpointsNext]_vars

SpecShop == InitRefresh /\ [][ShopNext]_vars

SpecCart == InitRefresh /\ [][CartNext]_vars

SpecOrderFail == InitRefresh /\ [][OrderFailNext]_vars

SpecOrderRace == InitRefresh /\ [][OrderRaceNext]_vars

SpecQuantity == InitRefresh /\ [][QuantityNext]_vars

SpecRegister == InitRefresh /\ [][RegisterNext]_vars

====
